---- MODULE Spec2Model ----
(***************************************************************************)
(* A model of the LSM storage engine of irqlevel/ddb:                      *)
(*   - the record codec        (lib/common/lsm/node.go, LsmNode)           *)
(*   - the sorted tables       (lib/common/lsm/sstable.go, SsTable)        *)
(*   - the engine              (lib/common/lsm/node.go, Lsm: the variant   *)
(*                              with compactChan / stopChan)               *)
(* Strings are sequences of small naturals (bytes); a file is the sequence *)
(* of words the codec wrote to it: one word per header field and one word  *)
(* per key or value byte.                                                  *)
(***************************************************************************)
EXTENDS Integers, Sequences, FiniteSets, TLC

(***************************************************************************)
(* Bounds of the model.                                                    *)
(***************************************************************************)
\* The flush threshold; the source sets 1000, the model a small number.
maxMemoryNodeCount == 1
\* Every keysPerIndex-th record of a table is sampled; the source sets 128.
keysPerIndex == 2
\* Set/Delete calls that pass validation, over a whole behaviour.
MaxOps == 3
\* The largest seq (lsm.time) the model lets the store reach.
MaxTime == 3
\* Set/Delete calls whose WAL append or fsync fails, over a whole behaviour.
MaxFaults == 1
\* The nodes the codec test writes back to back.
MaxNodes == 2
\* The keys a table built on its own can hold: with keysPerIndex = 2 its
\* index samples the first, the third and the fifth record.
MaxTableKeys == 5
\* Set/Delete calls over one run of an engine from NewLsm that is neither
\* closed nor terminated: enough for three flushes.
MaxRunOps == 6

(***************************************************************************)
(* Strings.                                                                *)
(***************************************************************************)
EmptyStr == <<>>

\* One key more than the threshold, so that the memtable can exceed it.
NKeys == maxMemoryNodeCount + 1

KeyStrs == {<<i>> : i \in 1..NKeys}

\* A one-byte and a two-byte value.
ValueStrs == {<<1>>, <<2, 1>>}

Min(a, b) == IF a < b THEN a ELSE b

\* Go's a < b on strings: bytewise lexicographic.
RECURSIVE StrLess(_, _)
StrLess(a, b) ==
    IF Len(b) = 0 THEN FALSE
    ELSE IF Len(a) = 0 THEN TRUE
    ELSE IF Head(a) # Head(b) THEN Head(a) < Head(b)
    ELSE StrLess(Tail(a), Tail(b))

RECURSIVE InsertSorted(_, _)
InsertSorted(s, sorted) ==
    IF Len(sorted) = 0 THEN <<s>>
    ELSE IF StrLess(s, Head(sorted)) THEN <<s>> \o sorted
    ELSE <<Head(sorted)>> \o InsertSorted(s, Tail(sorted))

\* sort.Strings
RECURSIVE SortStrings(_)
SortStrings(keys) ==
    IF Len(keys) = 0 THEN <<>>
    ELSE InsertSorted(Head(keys), SortStrings(Tail(keys)))

\* sort.SearchStrings(a, x): the smallest 0-based index i with a[i] >= x,
\* Len(a) when there is none.
SearchStrings(a, x) ==
    Cardinality({i \in 1..Len(a) : \A j \in 1..i : StrLess(a[j], x)})

\* A map's keys in the order a range loop meets them (Go leaves the order
\* open; every use sorts the result).
RECURSIVE RangeKeys(_)
RangeKeys(S) ==
    IF S = {} THEN <<>>
    ELSE LET k == CHOOSE x \in S : TRUE IN <<k>> \o RangeKeys(S \ {k})

\* make([]string, n)
RECURSIVE EmptyStrings(_)
EmptyStrings(n) == IF n = 0 THEN <<>> ELSE <<EmptyStr>> \o EmptyStrings(n - 1)

\* make([]byte, n)
RECURSIVE ZeroBytes(_)
ZeroBytes(n) == IF n <= 0 THEN <<>> ELSE <<0>> \o ZeroBytes(n - 1)

(***************************************************************************)
(* The record codec.                                                       *)
(***************************************************************************)
LsmNodeMagic == 1287498714

\* The header's fields: Magic, Deleted, KeyLength, ValueLength, CheckSum.
HeaderWords == 5

newLsmNode(key, value) == [key |-> key, value |-> value, deleted |-> FALSE]

\* sha256 over the words written so far, as a polynomial hash.
RECURSIVE HashWords(_, _)
HashWords(s, h) ==
    IF Len(s) = 0 THEN h
    ELSE HashWords(Tail(s), (h * 31 + (Head(s) % 65521) + 1) % 65521)

CheckSum(magic, deleted, keyLength, valueLength, keyBytes, valueBytes) ==
    HashWords(<<magic, deleted, keyLength, valueLength>> \o keyBytes \o valueBytes, 7)

\* WriteTo with header.Deleted left 0.
WriteToLive(node) ==
    <<LsmNodeMagic, 0, Len(node.key), Len(node.value),
      CheckSum(LsmNodeMagic, 0, Len(node.key), Len(node.value), node.key, node.value)>>
    \o node.key \o node.value

WriteTo(node) ==
    LET deleted == IF node.deleted THEN 1 ELSE 0
    IN  <<LsmNodeMagic, deleted, Len(node.key), Len(node.value),
          CheckSum(LsmNodeMagic, deleted, Len(node.key), Len(node.value),
                   node.key, node.value)>>
        \o node.key \o node.value

NoNode == newLsmNode(EmptyStr, EmptyStr)

ReadErr(err, pos) == [err |-> err, node |-> NoNode, pos |-> pos]

\* Reads one record of stream f at word offset pos. err is "nil", "EOF",
\* "ErrUnexpectedEOF", "ErrLsmNodeBadMagic" or "ErrLsmNodeBadCheckSum".
ReadFrom(f, pos) ==
    LET rem == Len(f) - pos
    IN
    IF rem <= 0 THEN ReadErr("EOF", pos)                        \* binary.Read: no byte
    ELSE IF rem < HeaderWords THEN ReadErr("ErrUnexpectedEOF", Len(f))
    ELSE
      LET magic   == f[pos + 1]
          deleted == f[pos + 2]
          klen    == f[pos + 3]
          vlen    == f[pos + 4]
          cks     == f[pos + 5]
          p1      == pos + HeaderWords
          kn      == Min(klen, Len(f) - p1)
          keyBytes == SubSeq(f, p1 + 1, p1 + kn) \o ZeroBytes(klen - kn)
          p2      == p1 + kn
          vn      == Min(vlen, Len(f) - p2)
          valueBytes == SubSeq(f, p2 + 1, p2 + vn) \o ZeroBytes(vlen - vn)
          p3      == p2 + vn
      IN
      IF magic # LsmNodeMagic THEN ReadErr("ErrLsmNodeBadMagic", p1)
      ELSE IF klen > 0 /\ kn = 0 THEN ReadErr("EOF", p1)        \* f.Read at end of file
      ELSE IF vlen > 0 /\ vn = 0 THEN ReadErr("EOF", p2)
      ELSE IF cks # CheckSum(magic, deleted, klen, vlen, keyBytes, valueBytes)
           THEN ReadErr("ErrLsmNodeBadCheckSum", p3)
      ELSE [err |-> "nil",
            node |-> [key |-> keyBytes, value |-> valueBytes, deleted |-> deleted # 0],
            pos |-> p3]

(***************************************************************************)
(* Maps with a growing domain (Go maps).                                   *)
(***************************************************************************)
EmptyMap == [k \in {} |-> 0]

MapPut(m, k, v) == [x \in (DOMAIN m) \cup {k} |-> IF x = k THEN v ELSE m[x]]

MapDelete(m, k) == [x \in (DOMAIN m) \ {k} |-> m[x]]

(***************************************************************************)
(* Sorted tables.  A table handle holds its file's path (the seq of        *)
(* lsm_<seq>.sstable, 0 for the empty path of a closed or erased handle),  *)
(* the sampled keys, their offsets, and minKey / maxKey as nil (<<>>) or a *)
(* pointer to a key (<<key>>).  The directory fs maps a seq to the words   *)
(* of its file.                                                            *)
(***************************************************************************)
NoSsTable ==
    [filePath |-> 0, keys |-> <<>>, keyToOffset |-> EmptyMap,
     minKey |-> <<>>, maxKey |-> <<>>]

RECURSIVE indexScan(_, _, _, _)
\* One round of the loop of SsTable.index: r is what ReadFrom gave at pos.
indexNode(f, pos, i, acc, r) ==
    IF r.err = "EOF" THEN acc
    ELSE IF r.err # "nil" THEN [acc EXCEPT !.err = r.err]
    ELSE IF r.node.deleted THEN [acc EXCEPT !.err = "panic"]   \* "node already deleted"
    ELSE
      LET key == r.node.key
          sampled == (i % keysPerIndex = 0)
      IN indexScan(f, r.pos, i + 1,
           [err |-> "nil",
            keys |-> IF sampled THEN Append(acc.keys, key) ELSE acc.keys,
            keyToOffset |-> IF sampled THEN MapPut(acc.keyToOffset, key, pos)
                            ELSE acc.keyToOffset,
            minKey |-> IF Len(acc.minKey) = 0 \/ StrLess(key, acc.minKey[1])
                       THEN <<key>> ELSE acc.minKey,
            maxKey |-> IF Len(acc.maxKey) = 0 \/ StrLess(acc.maxKey[1], key)
                       THEN <<key>> ELSE acc.maxKey])

\* The loop of SsTable.index from word offset pos, i records read so far.
indexScan(f, pos, i, acc) == indexNode(f, pos, i, acc, ReadFrom(f, pos))

\* sort.Strings(st.keys) at the end of SsTable.index.
indexSorted(a) == [a EXCEPT !.keys = SortStrings(a.keys)]

\* SsTable.index over the file's words f: the handle's index fields and err.
index(f) ==
    indexSorted(indexScan(f, 0, 0,
                    [err |-> "nil", keys |-> <<>>, keyToOffset |-> EmptyMap,
                     minKey |-> <<>>, maxKey |-> <<>>]))

SsTableOf(filePath, ix) ==
    [filePath |-> filePath, keys |-> ix.keys, keyToOffset |-> ix.keyToOffset,
     minKey |-> ix.minKey, maxKey |-> ix.maxKey]

\* The keys slice of newSsTable without its sort.Strings, in an order the
\* range loop over the map can give: here the descending one.
newSsTableKeysUnsorted(nodeMap) ==
    LET live == {k \in DOMAIN nodeMap : ~nodeMap[k].deleted}
        asc == SortStrings(RangeKeys(live)
                 \o EmptyStrings(Cardinality(DOMAIN nodeMap) - Cardinality(live)))
    IN [i \in 1..Len(asc) |-> asc[Len(asc) + 1 - i]]

\* The keys slice of newSsTable: len(nodeMap) entries, the live keys filled
\* in and one "" left for every deleted node, then sorted.
newSsTableKeys(nodeMap) ==
    LET live == {k \in DOMAIN nodeMap : ~nodeMap[k].deleted}
    IN SortStrings(RangeKeys(live)
                   \o EmptyStrings(Cardinality(DOMAIN nodeMap) - Cardinality(live)))

\* The write loop of newSsTable: nodeMap[key] of a key the map does not hold
\* is a nil *LsmNode, and WriteTo dereferences it.
RECURSIVE writeNodes(_, _, _)
writeNodes(keys, nodeMap, out) ==
    IF Len(keys) = 0 THEN [err |-> "nil", out |-> out]
    ELSE IF Head(keys) \notin DOMAIN nodeMap THEN [err |-> "panic", out |-> out]
    ELSE writeNodes(Tail(keys), nodeMap, out \o WriteTo(nodeMap[Head(keys)]))

\* The end of newSsTable, ix being what index gave on the written words out.
newSsTableIndexed(filePath, fs, out, ix) ==
    IF ix.err = "panic"
    THEN [err |-> "panic", fs |-> MapPut(fs, filePath, out), st |-> NoSsTable]
    ELSE IF ix.err # "nil"
    THEN [err |-> ix.err, fs |-> fs, st |-> NoSsTable]          \* os.Remove
    ELSE [err |-> "nil", fs |-> MapPut(fs, filePath, out), st |-> SsTableOf(filePath, ix)]

\* newSsTable after its write loop gave w.  A panic leaves the file as far
\* as it was written.
newSsTableWritten(filePath, fs, w) ==
    IF w.err = "panic"
    THEN [err |-> "panic", fs |-> MapPut(fs, filePath, w.out), st |-> NoSsTable]
    ELSE newSsTableIndexed(filePath, fs, w.out, index(w.out))

\* newSsTable(filePath, nodeMap) in directory fs: err, the directory
\* afterwards and the new handle.
newSsTable(filePath, nodeMap, fs) ==
    IF filePath \in DOMAIN fs
    THEN [err |-> "ErrExist", fs |-> fs, st |-> NoSsTable]      \* O_CREATE|O_EXCL
    ELSE newSsTableWritten(filePath, fs,
                           writeNodes(newSsTableKeys(nodeMap), nodeMap, <<>>))

\* The outcomes of newSsTable's I/O other than success: the OpenFile that
\* creates the file fails, a WriteTo fails, Sync fails, or index fails on an
\* I/O error of its own.
TableFaults == {"createErr", "writeErr", "syncErr", "indexErr"}

\* newSsTable(filePath, nodeMap) in directory fs when its I/O has the outcome
\* io of TableFaults: past the OpenFile every error path closes the file and
\* removes it.  The fault does not come about when the path exists (OpenFile
\* fails on O_EXCL), when a nil node stops the write loop at its first key,
\* or, for a WriteTo, when no key is there to write.
newSsTableIo(filePath, nodeMap, fs, io) ==
    IF io = "createErr" THEN [err |-> io, fs |-> fs, st |-> NoSsTable]
    ELSE IF filePath \in DOMAIN fs THEN newSsTable(filePath, nodeMap, fs)
    ELSE IF writeNodes(newSsTableKeys(nodeMap), nodeMap, <<>>).err = "panic"
    THEN newSsTable(filePath, nodeMap, fs)
    ELSE IF io = "writeErr" /\ Len(newSsTableKeys(nodeMap)) = 0
    THEN newSsTable(filePath, nodeMap, fs)
    ELSE [err |-> io, fs |-> MapDelete(fs, filePath), st |-> NoSsTable]  \* os.Remove

\* openSsTable after index gave ix.
openSsTableIndexed(filePath, ix) ==
    IF ix.err # "nil" THEN [err |-> ix.err, st |-> NoSsTable]
    ELSE [err |-> "nil", st |-> SsTableOf(filePath, ix)]

\* openSsTable(filePath)
openSsTable(filePath, fs) ==
    IF filePath \notin DOMAIN fs THEN [err |-> "ErrNotExist", st |-> NoSsTable]
    ELSE openSsTableIndexed(filePath, index(fs[filePath]))

GetErr(err) == [err |-> err, value |-> EmptyStr]

GetOk(value) == [err |-> "nil", value |-> value]

RECURSIVE scanFor(_, _, _)
\* One round of the read loop of SsTable.Get: r is what ReadFrom gave.
scanNode(f, key, r) ==
    IF r.err = "EOF" THEN GetErr("ErrNotFound")
    ELSE IF r.err # "nil" THEN GetErr(r.err)
    ELSE IF r.node.key = key
         THEN IF r.node.deleted THEN GetErr("ErrNotFound") ELSE GetOk(r.node.value)
    ELSE scanFor(f, r.pos, key)

\* The read loop of SsTable.Get, from word offset pos.
scanFor(f, pos, key) == scanNode(f, key, ReadFrom(f, pos))

\* st.keys[keyIndex] and the scan from its offset; "panic" is the index out
\* of range on an empty st.keys.
scanFrom(st, f, key, keyIndex) ==
    IF keyIndex >= Len(st.keys) THEN GetErr("panic")
    ELSE scanFor(f, st.keyToOffset[st.keys[keyIndex + 1]], key)

\* The search result taken as it is, without the step back.
keyIndexOfFound(found) == found

\* keyIndex of SsTable.Get: sort.SearchStrings, one back unless 0.
keyIndexOf(found) == IF found > 0 THEN found - 1 ELSE found

\* SsTable.Get(key) on handle st in directory fs.
SsTableGet(st, fs, key) ==
    IF Len(st.minKey) > 0 /\ StrLess(key, st.minKey[1]) THEN GetErr("ErrNotFound")
    ELSE IF Len(st.maxKey) > 0 /\ StrLess(st.maxKey[1], key) THEN GetErr("ErrNotFound")
    ELSE IF st.filePath \notin DOMAIN fs THEN GetErr("ErrNotExist")
    ELSE scanFrom(st, fs[st.filePath], key, keyIndexOf(SearchStrings(st.keys, key)))

\* The loop of mergeSsTable over the words pf of prev's file and cf of
\* curr's.  m holds the loop's variables: prevNode / currNode are nil (<<>>)
\* or a node (<<node>>), prevOpen / currOpen say prevFile / currFile # nil,
\* ppos / cpos are the files' offsets, out the words written to the new file.
\* eof says that the function's err holds io.EOF, left there by the last
\* ReadFrom: the deferred function then removes the new file, also when it
\* runs on a panic.
mergeInit ==
    [err |-> "nil", prevOpen |-> TRUE, currOpen |-> TRUE, ppos |-> 0, cpos |-> 0,
     prevNode |-> <<>>, currNode |-> <<>>, out |-> <<>>, eof |-> FALSE]

\* prevNode.ReadFrom(prevFile) gave r.
mergeGotPrev(m, r) ==
    IF r.err = "nil" THEN [m EXCEPT !.prevNode = <<r.node>>, !.ppos = r.pos, !.eof = FALSE]
    ELSE IF r.err = "EOF" THEN [m EXCEPT !.prevOpen = FALSE, !.eof = TRUE]
    ELSE [m EXCEPT !.err = r.err]

mergeReadPrev(pf, m) ==
    IF Len(m.prevNode) = 0 /\ m.prevOpen THEN mergeGotPrev(m, ReadFrom(pf, m.ppos))
    ELSE m

\* currNode.ReadFrom(currFile) gave r.
mergeGotCurr(m, r) ==
    IF r.err = "nil" THEN [m EXCEPT !.currNode = <<r.node>>, !.cpos = r.pos, !.eof = FALSE]
    ELSE IF r.err = "EOF" THEN [m EXCEPT !.currOpen = FALSE, !.eof = TRUE]
    ELSE [m EXCEPT !.err = r.err]

mergeReadCurr(cf, m) ==
    IF m.err # "nil" THEN m
    ELSE IF Len(m.currNode) = 0 /\ m.currOpen THEN mergeGotCurr(m, ReadFrom(cf, m.cpos))
    ELSE m

\* The choice of newNode with prevNode taken when the keys are equal.
mergeTakePrev(m) ==
    LET hasP  == Len(m.prevNode) > 0
        hasC  == Len(m.currNode) > 0
        takeP == hasP /\ (~hasC \/ ~StrLess(m.currNode[1].key, m.prevNode[1].key))
        dropC == hasP /\ hasC /\ m.prevNode[1].key = m.currNode[1].key
        newNode == IF takeP THEN m.prevNode[1] ELSE m.currNode[1]
    IN IF newNode.deleted THEN [m EXCEPT !.err = "panic"]
       ELSE [m EXCEPT !.prevNode = IF takeP THEN <<>> ELSE @,
                      !.currNode = IF ~takeP \/ dropC THEN <<>> ELSE @,
                      !.out = @ \o WriteTo(newNode),
                      !.eof = FALSE]

\* The choice of newNode among prevNode and currNode (one of them is not
\* nil) and its write; "panic" is "node already deleted".
mergeTake(m) ==
    LET hasP  == Len(m.prevNode) > 0
        hasC  == Len(m.currNode) > 0
        takeC == hasC /\ (~hasP \/ ~StrLess(m.prevNode[1].key, m.currNode[1].key))
        dropP == hasP /\ hasC /\ m.prevNode[1].key = m.currNode[1].key
        newNode == IF takeC THEN m.currNode[1] ELSE m.prevNode[1]
    IN IF newNode.deleted THEN [m EXCEPT !.err = "panic"]
       ELSE [m EXCEPT !.currNode = IF takeC THEN <<>> ELSE @,
                      !.prevNode = IF ~takeC \/ dropP THEN <<>> ELSE @,
                      !.out = @ \o WriteTo(newNode),
                      !.eof = FALSE]

RECURSIVE mergeLoop(_, _, _)
mergeRound(pf, cf, m) ==
    IF m.err # "nil" THEN m
    ELSE IF Len(m.prevNode) = 0 /\ Len(m.currNode) = 0 THEN m
    ELSE mergeLoop(pf, cf, mergeTake(m))

mergeLoop(pf, cf, m) ==
    IF m.err # "nil" THEN m
    ELSE mergeRound(pf, cf, mergeReadCurr(cf, mergeReadPrev(pf, m)))

\* The end of mergeSsTable, ix being what index gave on the written words.
mergeSsTableIndexed(newFilePath, fs, out, ix) ==
    IF ix.err = "panic"
    THEN [err |-> "panic", fs |-> MapPut(fs, newFilePath, out), st |-> NoSsTable]
    ELSE IF ix.err # "nil"
    THEN [err |-> ix.err, fs |-> fs, st |-> NoSsTable]          \* os.Remove
    ELSE [err |-> "nil", fs |-> MapPut(fs, newFilePath, out),
          st |-> SsTableOf(newFilePath, ix)]

\* mergeSsTable after its loop gave m.
mergeSsTableMerged(newFilePath, fs, m) ==
    IF m.err = "panic"
    THEN [err |-> "panic",
          fs |-> IF m.eof THEN fs ELSE MapPut(fs, newFilePath, m.out),
          st |-> NoSsTable]
    ELSE IF m.err # "nil" THEN [err |-> m.err, fs |-> fs, st |-> NoSsTable]
    ELSE mergeSsTableIndexed(newFilePath, fs, m.out, index(m.out))

\* mergeSsTable(prevSt, currSt, newFilePath) in directory fs.
mergeSsTable(prevSt, currSt, newFilePath, fs) ==
    IF prevSt.filePath \notin DOMAIN fs \/ currSt.filePath \notin DOMAIN fs
    THEN [err |-> "ErrNotExist", fs |-> MapDelete(fs, newFilePath), st |-> NoSsTable]
    ELSE IF newFilePath \in DOMAIN fs
    THEN [err |-> "ErrExist", fs |-> MapDelete(fs, newFilePath), st |-> NoSsTable]
    ELSE mergeSsTableMerged(newFilePath, fs,
                            mergeLoop(fs[prevSt.filePath], fs[currSt.filePath], mergeInit))

\* The outcomes of mergeSsTable's I/O other than success: an OpenFile of an
\* input fails, the OpenFile that creates the output fails, a ReadFrom of an
\* input fails on an I/O error, a WriteTo fails, Sync fails, or index fails
\* on an I/O error of its own.
MergeFaults == {"openErr", "createErr", "readErr", "writeErr", "syncErr", "indexErr"}

\* mergeSsTable whose error paths leave the output file as far as it was
\* written.
mergeSsTableIoKeepsFile(prevSt, currSt, newFilePath, fs, io) ==
    IF io \in {"openErr", "createErr"}
    THEN [err |-> io, fs |-> MapDelete(fs, newFilePath), st |-> NoSsTable]
    ELSE IF prevSt.filePath \notin DOMAIN fs \/ currSt.filePath \notin DOMAIN fs
            \/ newFilePath \in DOMAIN fs
    THEN mergeSsTable(prevSt, currSt, newFilePath, fs)
    ELSE IF io = "writeErr" /\ Len(fs[prevSt.filePath]) = 0 /\ Len(fs[currSt.filePath]) = 0
    THEN mergeSsTable(prevSt, currSt, newFilePath, fs)
    ELSE [err |-> io, fs |-> MapPut(fs, newFilePath, <<>>), st |-> NoSsTable]

\* mergeSsTable(prevSt, currSt, newFilePath) in directory fs when its I/O has
\* the outcome io of MergeFaults: the deferred function finds err # nil and
\* removes newFilePath.  A WriteTo needs a record to write.
mergeSsTableIo(prevSt, currSt, newFilePath, fs, io) ==
    IF io \in {"openErr", "createErr"}
    THEN [err |-> io, fs |-> MapDelete(fs, newFilePath), st |-> NoSsTable]
    ELSE IF prevSt.filePath \notin DOMAIN fs \/ currSt.filePath \notin DOMAIN fs
            \/ newFilePath \in DOMAIN fs
    THEN mergeSsTable(prevSt, currSt, newFilePath, fs)
    ELSE IF io = "writeErr" /\ Len(fs[prevSt.filePath]) = 0 /\ Len(fs[currSt.filePath]) = 0
    THEN mergeSsTable(prevSt, currSt, newFilePath, fs)
    ELSE [err |-> io, fs |-> MapDelete(fs, newFilePath), st |-> NoSsTable]

(***************************************************************************)
(* The engine.                                                             *)
(*                                                                         *)
(* On disk:   wal (the words of lsm.log), walSynced (how many of them an   *)
(*            fsync has covered), files (seq -> words of lsm_<seq>.sstable)*)
(* In memory: the fields of Lsm (nodeMap, ssTableMap, time, closing,       *)
(*            compactChan as the number of buffered signals), the position *)
(*            bg of the Background goroutine with the locals mrg of its    *)
(*            mergeSsTables call, the position closer of the Close call,   *)
(*            and blocked: the Set/Delete callers (one per key) waiting in *)
(*            the send on compactChan, with the result they will return.   *)
(* proc is "up" (engine constructed), "closed" (Close returned) or "down"  *)
(* (the process is gone); fault names the last failure.                    *)
(* ret is the call that has returned and whose result its caller has not  *)
(* taken yet (NoCall when there is none),                                  *)
(* nops counts the Set/Delete calls that passed validation, nfaults  *)
(* those of them whose log append or fsync failed.                         *)
(* History (not read by any action's guard or effect on the engine):       *)
(* last[k] is the last write to key k that returned nil ("unknown" once a  *)
(* write to k failed in Sync); atClose holds the Get results at the moment *)
(* Close finished and crashed says that the process was terminated from    *)
(* outside, both until the next write.                                     *)
(* test is the state of the codec test (TestLsmNodeReadWrite), which runs  *)
(* apart from any engine: the words f of its temporary file, the file      *)
(* offset off, the nodes n written and the results rn of reading them back.*)
(* mtest is the state of a call of mergeSsTable made apart from any engine *)
(* on two table files: their words prev and curr, and the result res.      *)
(* rd is the call of Get that has missed in the memtable and is on its way *)
(* through lookupSsTables, when the calls of Get are followed step by      *)
(* step: its key, its position and the ids it has still to visit.          *)
(* stest is the state of a table built apart from any engine and read with *)
(* SsTable.Get: the records it was built from, its file and handle, and    *)
(* the last key read with what the read gave.                              *)
(***************************************************************************)
VARIABLES proc, fault, nodeMap, ssTableMap, time, closing, compactChan,
          bg, mrg, closer, blocked, wal, walSynced, files, ret, nops, nfaults,
          last, atClose, crashed, test, mtest, rd, stest

vars == <<proc, fault, nodeMap, ssTableMap, time, closing, compactChan,
          bg, mrg, closer, blocked, wal, walSynced, files, ret, nops, nfaults,
          last, atClose, crashed, test, mtest, rd, stest>>

NoMerge == [prevStId |-> 0, currStId |-> 0, time |-> 0, st |-> NoSsTable]

Call(op, key, value, err) ==
    [op |-> op, key |-> key, value |-> value, err |-> err]

NoCall == Call("none", EmptyStr, EmptyStr, "nil")

\* No result is waiting to be taken by its caller.  A returned result changes
\* nothing of the engine, so the steps that can follow it are those that
\* could be taken before it: the model lets the caller take it first.
Idle == ret = NoCall

NoWrite == [kind |-> "none", value |-> EmptyStr]

\* The process is gone (p = "down") or the engine closed (p = "closed"):
\* nothing of the Lsm object is left to use.
Gone(p, f) ==
    /\ proc' = p
    /\ fault' = f
    /\ nodeMap' = EmptyMap
    /\ ssTableMap' = EmptyMap
    /\ time' = 0
    /\ closing' = FALSE
    /\ compactChan' = 0
    /\ bg' = "none"
    /\ mrg' = NoMerge
    /\ closer' = "none"

\* The codec test before its first write: its temporary file f is empty and
\* at offset off = 0, no node n is written and no node rn read back.
NoTest == [f |-> <<>>, off |-> 0, n |-> <<>>, rn |-> <<>>]

\* No call of mergeSsTable apart from an engine: prev and curr are the words
\* of the two table files it is given, res is <<>> or what it returned.
NoMergeTest == [prev |-> <<>>, curr |-> <<>>, res |-> <<>>]

\* No call of Get is inside lookupSsTables.
NoRead == [pos |-> "none", key |-> EmptyStr, ids |-> {}]

\* No table is built apart from an engine.  Once built: prev and curr are the
\* memtables flushed into tables 1 and 2, fs the directory, tables the
\* handles by seq, and read <<>> or the last call of SsTable.Get: the table
\* id and key it was given, what it returned (res), and its local keyIndex
\* with the offset it sought to (-1 when it returned before the search).
NoTableTest ==
    [built |-> FALSE, prev |-> EmptyMap, curr |-> EmptyMap, fs |-> EmptyMap,
     tables |-> EmptyMap, read |-> <<>>]

\* NewLsm on a directory that holds no store: newLsm and start.
Init ==
    /\ proc = "up"
    /\ fault = "none"
    /\ nodeMap = EmptyMap
    /\ ssTableMap = EmptyMap
    /\ time = 0
    /\ closing = FALSE
    /\ compactChan = 0
    /\ bg = "select"
    /\ mrg = NoMerge
    /\ closer = "none"
    /\ blocked = EmptyMap
    /\ wal = <<>>
    /\ walSynced = 0
    /\ files = EmptyMap
    /\ ret = NoCall
    /\ nops = 0
    /\ nfaults = 0
    /\ last = [k \in KeyStrs |-> NoWrite]
    /\ atClose = <<>>
    /\ crashed = FALSE
    /\ test = NoTest
    /\ mtest = NoMergeTest
    /\ rd = NoRead
    /\ stest = NoTableTest

shouldCompact(force, isClosing, map) ==
    force \/ (~isClosing /\ Cardinality(DOMAIN map) > maxMemoryNodeCount)

RECURSIVE lookupIds(_, _, _, _)
\* One round of the loop of lookupSsTables: r is what the table id gave.
lookupNext(ids, id, tables, fs, key, r) ==
    IF r.err = "nil" THEN r
    ELSE IF r.err = "ErrDeleted" THEN GetErr("ErrNotFound")
    ELSE IF r.err # "ErrNotFound" THEN GetErr(r.err)
    ELSE lookupIds(ids \ {id}, tables, fs, key)

lookupId(ids, id, tables, fs, key) ==
    lookupNext(ids, id, tables, fs, key, SsTableGet(tables[id], fs, key))

\* lookupSsTables over the tables with the ids of the set ids, largest first.
lookupIds(ids, tables, fs, key) ==
    IF ids = {} THEN GetErr("ErrNotFound")
    ELSE lookupId(ids, CHOOSE x \in ids : \A y \in ids : y <= x, tables, fs, key)

lookupSsTables(tables, fs, key) == lookupIds(DOMAIN tables, tables, fs, key)

\* Lsm.Get(key) on memtable map and table set tables.
LsmGet(map, tables, fs, key) ==
    IF key = EmptyStr THEN GetErr("ErrEmptyKey")
    ELSE IF key \in DOMAIN map
         THEN IF map[key].deleted THEN GetErr("ErrNotFound") ELSE GetOk(map[key].value)
    ELSE lookupSsTables(tables, fs, key)

\* What Get(key) returns in the current state.
GetResult(key) == LsmGet(nodeMap, ssTableMap, files, key)

\* The memtable after Set's upsert.
SetNode(map, key, value) ==
    IF key \in DOMAIN map THEN [map EXCEPT ![key].value = value]
    ELSE MapPut(map, key, newLsmNode(key, value))

\* Delete's upsert with a fresh tombstone node in every case.
DeleteNodeFresh(map, key) ==
    MapPut(map, key, [newLsmNode(key, EmptyStr) EXCEPT !.deleted = TRUE])

\* The memtable after Delete's upsert.
DeleteNode(map, key) ==
    IF key \in DOMAIN map THEN [map EXCEPT ![key].deleted = TRUE]
    ELSE MapPut(map, key, [newLsmNode(key, EmptyStr) EXCEPT !.deleted = TRUE])

\* The record logSet / logDelete append.
logSetNode(key, value) == newLsmNode(key, value)

logDeleteNode(key) == [newLsmNode(key, EmptyStr) EXCEPT !.deleted = TRUE]

\* The deferred function of Set / Delete: with the memtable over the
\* threshold the caller sends on compactChan (capacity 1) and returns once
\* the send is done; call is what it returns.
SignalAndReturn(map, key, call) ==
    IF shouldCompact(FALSE, closing, map)
    THEN IF compactChan < 1
         THEN /\ compactChan' = 1
              /\ ret' = call
              /\ blocked' = blocked
         ELSE /\ compactChan' = compactChan
              /\ ret' = NoCall
              /\ blocked' = MapPut(blocked, key, call)
    ELSE /\ compactChan' = compactChan
         /\ ret' = call
         /\ blocked' = blocked

\* lsm.log after logSet / logDelete of record node with outcome io: "ok",
\* "writeErr" (WriteTo failed, nothing appended) or "syncErr" (the record
\* was appended and Sync failed).
logAppend(log, node, io) == IF io = "writeErr" THEN log ELSE log \o WriteTo(node)

\* logSet / logDelete without their Sync.
logSyncSkipped(synced, log, io) == synced

\* How many words of lsm.log an fsync has covered after logSet / logDelete.
logSync(synced, log, io) == IF io = "ok" THEN Len(log) ELSE synced

\* Set / Delete that go on to the upsert whatever the log returned.
upsertAlways(map, newMap, io) == newMap

\* The memtable Set / Delete leave: the upsert is skipped when the log
\* returned an error.
upsert(map, newMap, io) == IF io = "ok" THEN newMap ELSE map

\* A Set / Delete call past validation, with the record node it logs, the
\* memtable newMap it leaves on success, and the outcome io of the log.
Written(op, key, value, node, newMap, kind, io) ==
    /\ io = "ok" \/ nfaults < MaxFaults
    /\ key \notin DOMAIN blocked
    /\ nops' = nops + 1
    /\ nfaults' = IF io = "ok" THEN nfaults ELSE nfaults + 1
    /\ wal' = logAppend(wal, node, io)
    /\ walSynced' = logSync(walSynced, wal', io)
    /\ nodeMap' = upsert(nodeMap, newMap, io)
    /\ SignalAndReturn(nodeMap', key,
                       Call(op, key, value, IF io = "ok" THEN "nil" ELSE io))
    /\ last' = IF io = "ok"
               THEN [last EXCEPT ![key] = [kind |-> kind, value |-> value]]
               ELSE IF io = "syncErr"
               THEN [last EXCEPT ![key] = [kind |-> "unknown", value |-> EmptyStr]]
               ELSE last
    /\ atClose' = <<>>
    /\ crashed' = FALSE
    /\ UNCHANGED <<proc, fault, ssTableMap, time, closing, bg, mrg, closer, files>>

\* The calls of Set / Delete past validation, MaxOps of them.
Write(op, key, value, node, newMap, kind, io) ==
    /\ nops < MaxOps
    /\ Written(op, key, value, node, newMap, kind, io)

\* A call rejected by validation.
Reject(op, key, value, err) ==
    /\ ret' = Call(op, key, value, err)
    /\ UNCHANGED <<proc, fault, nodeMap, ssTableMap, time, closing, compactChan,
                   bg, mrg, closer, blocked, wal, walSynced, files, nops, nfaults,
                   last, atClose, crashed>>

\* Set without its check of the value.
SetCheckKeyOnly(key, value) == IF key = EmptyStr THEN "ErrEmptyKey" ELSE "nil"

\* The checks at the head of Set, of Delete and of Get.
SetCheck(key, value) ==
    IF key = EmptyStr THEN "ErrEmptyKey"
    ELSE IF value = EmptyStr THEN "ErrEmptyValue"
    ELSE "nil"

KeyCheck(key) == IF key = EmptyStr THEN "ErrEmptyKey" ELSE "nil"

Set(key, value) ==
    /\ Idle
    /\ UNCHANGED <<test, mtest, rd, stest>>
    /\ proc = "up"
    /\ IF SetCheck(key, value) # "nil"
       THEN Reject("Set", key, value, SetCheck(key, value))
       ELSE \E io \in {"ok", "writeErr", "syncErr"} :
              Write("Set", key, value, logSetNode(key, value),
                    SetNode(nodeMap, key, value), "set", io)

Delete(key) ==
    /\ Idle
    /\ UNCHANGED <<test, mtest, rd, stest>>
    /\ proc = "up"
    /\ IF KeyCheck(key) # "nil"
       THEN Reject("Delete", key, EmptyStr, KeyCheck(key))
       ELSE \E io \in {"ok", "writeErr", "syncErr"} :
              Write("Delete", key, EmptyStr, logDeleteNode(key),
                    DeleteNode(nodeMap, key), "del", io)

Get(key) ==
    /\ Idle
    /\ UNCHANGED <<test, mtest, rd, stest>>
    /\ proc = "up"
    /\ ret' = Call("Get", key, GetResult(key).value, GetResult(key).err)
    /\ UNCHANGED <<proc, fault, nodeMap, ssTableMap, time, closing, compactChan,
                   bg, mrg, closer, blocked, wal, walSynced, files, nops, nfaults,
                   last, atClose, crashed>>

\* A caller blocked in the send on compactChan gets its signal in and returns.
SendDone(key) ==
    /\ Idle
    /\ UNCHANGED <<test, mtest, rd, stest>>
    /\ proc = "up"
    /\ key \in DOMAIN blocked
    /\ compactChan < 1
    /\ compactChan' = 1
    /\ ret' = blocked[key]
    /\ blocked' = MapDelete(blocked, key)
    /\ UNCHANGED <<proc, fault, nodeMap, ssTableMap, time, closing, bg, mrg, closer,
                   wal, walSynced, files, nops, nfaults, last, atClose, crashed>>

(***************************************************************************)
(* The Background goroutine.                                               *)
(***************************************************************************)
BgUnchanged ==
    /\ ret' = NoCall
    /\ UNCHANGED <<proc, fault, nodeMap, ssTableMap, time, closing, compactChan,
                   mrg, closer, blocked, wal, walSynced, files, nops, nfaults,
                   last, atClose, crashed>>

\* case <-lsm.mergeTimer.C
BgMergeTick ==
    /\ Idle
    /\ UNCHANGED <<test, mtest, rd, stest>>
    /\ proc = "up"
    /\ bg = "select"
    /\ bg' = "merge"
    /\ BgUnchanged

\* compact(false, true) up to the release of the read lock: the first check.
\* With nothing to flush, Background goes on to mergeSsTables.
CompactCheck == IF shouldCompact(FALSE, closing, nodeMap) THEN "compactLock" ELSE "merge"

\* case <-lsm.compactTimer.C
BgCompactTick ==
    /\ Idle
    /\ UNCHANGED <<test, mtest, rd, stest>>
    /\ proc = "up"
    /\ bg = "select"
    /\ bg' = CompactCheck
    /\ BgUnchanged

\* The signal of compactChan received by a second goroutine, wherever the
\* first one is.
BgCompactSignalAnywhere ==
    /\ Idle
    /\ UNCHANGED <<test, mtest, rd, stest>>
    /\ proc = "up"
    /\ bg \notin {"exit", "none"}
    /\ compactChan > 0
    /\ compactChan' = compactChan - 1
    /\ bg' = CompactCheck
    /\ ret' = NoCall
    /\ UNCHANGED <<proc, fault, nodeMap, ssTableMap, time, closing,
                   mrg, closer, blocked, wal, walSynced, files, nops, nfaults,
                   last, atClose, crashed>>

\* case <-lsm.compactChan
BgCompactSignal ==
    /\ Idle
    /\ UNCHANGED <<test, mtest, rd, stest>>
    /\ proc = "up"
    /\ bg = "select"
    /\ compactChan > 0
    /\ compactChan' = compactChan - 1
    /\ bg' = CompactCheck
    /\ ret' = NoCall
    /\ UNCHANGED <<proc, fault, nodeMap, ssTableMap, time, closing,
                   mrg, closer, blocked, wal, walSynced, files, nops, nfaults,
                   last, atClose, crashed>>

\* The flush of compact with the memtable left as it is.
FlushKeepsNodes(t, r, logTruncate) ==
    /\ time' = t
    /\ files' = r.fs
    /\ nodeMap' = nodeMap
    /\ IF r.err = "nil"
       THEN /\ ssTableMap' = MapPut(ssTableMap, t, r.st)
            /\ wal' = IF logTruncate THEN <<>> ELSE wal
            /\ walSynced' = IF logTruncate THEN 0 ELSE walSynced
       ELSE UNCHANGED <<ssTableMap, wal, walSynced>>

\* What the flush of compact does to memtable, table set, time and disk,
\* the write lock held: t is the new seq, r the result of newSsTable.
Flush(t, r, logTruncate) ==
    /\ time' = t
    /\ files' = r.fs
    /\ IF r.err = "nil"
       THEN /\ ssTableMap' = MapPut(ssTableMap, t, r.st)
            /\ nodeMap' = EmptyMap
            /\ wal' = IF logTruncate THEN <<>> ELSE wal
            /\ walSynced' = IF logTruncate THEN 0 ELSE walSynced
       ELSE UNCHANGED <<ssTableMap, nodeMap, wal, walSynced>>

\* compact's second check failed: RUnlock on the lock held for writing.  The
\* runtime stops the process ("RUnlock of unlocked RWMutex") unless readers
\* are queued on the lock, and then the lock's counters are left wrong.
CompactBadUnlock(outcome) ==
    IF outcome = "fatal"
    THEN /\ Gone("down", "runlock")
         /\ blocked' = EmptyMap
         /\ ret' = NoCall
         /\ UNCHANGED <<wal, walSynced, files, nops, nfaults, last, atClose, crashed>>
    ELSE /\ fault' = "lockcorrupt"
         /\ bg' = "merge"
         /\ ret' = NoCall
         /\ UNCHANGED <<proc, nodeMap, ssTableMap, time, closing, compactChan,
                        mrg, closer, blocked, wal, walSynced, files,
                        nops, nfaults, last, atClose, crashed>>

\* compact after which Background selects again without its mergeSsTables.
CompactFlushNoMerge(t, r) ==
    IF r.err = "panic"
    THEN /\ Gone("down", "nilderef")
         /\ files' = r.fs
         /\ blocked' = EmptyMap
         /\ ret' = NoCall
         /\ UNCHANGED <<wal, walSynced, nops, nfaults, last, atClose, crashed>>
    ELSE /\ Flush(t, r, TRUE)
         /\ bg' = "select"
         /\ ret' = NoCall
         /\ UNCHANGED <<proc, fault, closing, compactChan, mrg, closer,
                        blocked, nops, nfaults, last, atClose, crashed>>

\* compact past its second check: r is what newSsTable gave for seq t.
CompactFlush(t, r) ==
    IF r.err = "panic"
    THEN /\ Gone("down", "nilderef")
         /\ files' = r.fs
         /\ blocked' = EmptyMap
         /\ ret' = NoCall
         /\ UNCHANGED <<wal, walSynced, nops, nfaults, last, atClose, crashed>>
    ELSE /\ Flush(t, r, TRUE)
         /\ bg' = "merge"
         /\ ret' = NoCall
         /\ UNCHANGED <<proc, fault, closing, compactChan, mrg, closer,
                        blocked, nops, nfaults, last, atClose, crashed>>

\* compact(false, true), under the write lock.
CompactLocked ==
    /\ Idle
    /\ UNCHANGED <<test, mtest, rd, stest>>
    /\ proc = "up"
    /\ bg = "compactLock"
    /\ IF ~shouldCompact(FALSE, closing, nodeMap)
       THEN \E outcome \in {"fatal", "corrupt"} : CompactBadUnlock(outcome)
       ELSE /\ time < MaxTime
            /\ CompactFlush(time + 1, newSsTable(time + 1, nodeMap, files))

\* The largest and the second largest id of the table set.
MaxId(ids) == CHOOSE x \in ids : \A y \in ids : y <= x

\* mergeSsTables, up to the release of the table set's read lock.
MergeStart ==
    /\ Idle
    /\ UNCHANGED <<test, mtest, rd, stest>>
    /\ proc = "up"
    /\ bg = "merge"
    /\ IF Cardinality(DOMAIN ssTableMap) <= 1
       THEN /\ bg' = "select"
            /\ BgUnchanged
       ELSE /\ time < MaxTime
            /\ time' = time + 1
            /\ LET currStId == MaxId(DOMAIN ssTableMap)
                   prevStId == MaxId(DOMAIN ssTableMap \ {currStId})
               IN mrg' = [prevStId |-> prevStId, currStId |-> currStId,
                          time |-> time', st |-> NoSsTable]
            /\ bg' = "mergeIO"
            /\ ret' = NoCall
            /\ UNCHANGED <<proc, fault, nodeMap, ssTableMap, closing, compactChan,
                           closer, blocked, wal, walSynced, files, nops, nfaults,
                           last, atClose, crashed>>

\* mergeSsTables after mergeSsTable gave r.
MergeDone(r) ==
    /\ files' = r.fs
    /\ ret' = NoCall
    /\ IF r.err = "panic"
       THEN /\ Gone("down", "nodedeleted")
            /\ blocked' = EmptyMap
            /\ UNCHANGED <<wal, walSynced, nops, nfaults, last, atClose, crashed>>
       ELSE /\ bg' = IF r.err = "nil" THEN "mergeSwap" ELSE "select"
            /\ mrg' = IF r.err = "nil" THEN [mrg EXCEPT !.st = r.st] ELSE NoMerge
            /\ UNCHANGED <<proc, fault, nodeMap, ssTableMap, time, closing,
                           compactChan, closer, blocked, wal, walSynced,
                           nops, nfaults, last, atClose, crashed>>

\* mergeSsTables: the call of mergeSsTable, no lock of the engine held.
MergeIO ==
    /\ Idle
    /\ UNCHANGED <<test, mtest, rd, stest>>
    /\ proc = "up"
    /\ bg = "mergeIO"
    /\ MergeDone(mergeSsTable(ssTableMap[mrg.prevStId], ssTableMap[mrg.currStId],
                              mrg.time, files))

\* mergeSsTables: the swap under the table set's write lock.
MergeSwap ==
    /\ Idle
    /\ UNCHANGED <<test, mtest, rd, stest>>
    /\ proc = "up"
    /\ bg = "mergeSwap"
    /\ ssTableMap' = MapDelete(MapDelete(MapPut(ssTableMap, mrg.time, mrg.st),
                                         mrg.prevStId), mrg.currStId)
    /\ bg' = "erasePrev"
    /\ ret' = NoCall
    /\ UNCHANGED <<proc, fault, nodeMap, time, closing, compactChan, mrg, closer,
                   blocked, wal, walSynced, files, nops, nfaults, last, atClose, crashed>>

\* prevSt.Erase()
ErasePrev ==
    /\ Idle
    /\ UNCHANGED <<test, mtest, rd, stest>>
    /\ proc = "up"
    /\ bg = "erasePrev"
    /\ files' = MapDelete(files, mrg.prevStId)
    /\ bg' = "eraseCurr"
    /\ ret' = NoCall
    /\ UNCHANGED <<proc, fault, nodeMap, ssTableMap, time, closing, compactChan, mrg,
                   closer, blocked, wal, walSynced, nops, nfaults, last, atClose, crashed>>

\* currSt.Erase()
EraseCurr ==
    /\ Idle
    /\ UNCHANGED <<test, mtest, rd, stest>>
    /\ proc = "up"
    /\ bg = "eraseCurr"
    /\ files' = MapDelete(files, mrg.currStId)
    /\ bg' = "select"
    /\ mrg' = NoMerge
    /\ ret' = NoCall
    /\ UNCHANGED <<proc, fault, nodeMap, ssTableMap, time, closing, compactChan,
                   closer, blocked, wal, walSynced, nops, nfaults, last, atClose, crashed>>

(***************************************************************************)
(* Close, abrupt termination, OpenLsm.                                     *)
(***************************************************************************)
\* Close: closing = true under the memtable lock.
CloseBegin ==
    /\ Idle
    /\ UNCHANGED <<test, mtest, rd, stest>>
    /\ proc = "up"
    /\ closer = "none"
    /\ closing' = TRUE
    /\ closer' = "closing"
    /\ ret' = NoCall
    /\ UNCHANGED <<proc, fault, nodeMap, ssTableMap, time, compactChan, bg, mrg,
                   blocked, wal, walSynced, files, nops, nfaults, last, atClose, crashed>>

\* Close going on to close the tables without its stopChan <- true and
\* wg.Wait: the Background goroutine is left where it is.
CloseNoWait ==
    /\ Idle
    /\ UNCHANGED <<test, mtest, rd, stest>>
    /\ proc = "up"
    /\ closer = "closing"
    /\ closer' = "stopped"
    /\ ret' = NoCall
    /\ UNCHANGED <<proc, fault, nodeMap, ssTableMap, time, closing, compactChan, bg, mrg,
                   blocked, wal, walSynced, files, nops, nfaults, last, atClose, crashed>>

\* Close: stopChan <- true meets case <-lsm.stopChan; Background returns and
\* wg.Wait is over.
CloseStop ==
    /\ Idle
    /\ UNCHANGED <<test, mtest, rd, stest>>
    /\ proc = "up"
    /\ closer = "closing"
    /\ bg = "select"
    /\ bg' = "exit"
    /\ closer' = "stopped"
    /\ ret' = NoCall
    /\ UNCHANGED <<proc, fault, nodeMap, ssTableMap, time, closing, compactChan, mrg,
                   blocked, wal, walSynced, files, nops, nfaults, last, atClose, crashed>>

\* Close: closeSsTables and logFile.Close under the memtable lock.
CloseFinish ==
    /\ Idle
    /\ UNCHANGED <<test, mtest, rd, stest>>
    /\ proc = "up"
    /\ closer = "stopped"
    /\ Gone("closed", fault)
    /\ ret' = Call("Close", EmptyStr, EmptyStr, "nil")
    /\ atClose' = <<[k \in KeyStrs |-> GetResult(k)]>>
    /\ crashed' = FALSE
    /\ UNCHANGED <<blocked, wal, walSynced, files, nops, nfaults, last>>

\* The process is terminated from outside, between two steps.
Kill ==
    /\ Idle
    /\ UNCHANGED <<test, mtest, rd, stest>>
    /\ proc = "up"
    /\ Gone("down", "killed")
    /\ blocked' = EmptyMap
    /\ ret' = NoCall
    /\ atClose' = <<>>
    /\ crashed' = TRUE
    /\ UNCHANGED <<wal, walSynced, files, nops, nfaults, last>>

RECURSIVE restoreLoop(_, _, _)
\* One round of the loop of restoreFromLog: r is what ReadFrom gave.
restoreNode(f, map, r) ==
    IF r.err = "EOF" THEN [err |-> "nil", map |-> map]
    ELSE IF r.err # "nil" THEN [err |-> r.err, map |-> map]
    ELSE restoreLoop(f, r.pos, MapPut(map, r.node.key, r.node))

\* The loop of restoreFromLog over the words f of lsm.log, from offset pos.
restoreLoop(f, pos, map) == restoreNode(f, map, ReadFrom(f, pos))

\* openSsTables: a handle for every lsm_<n>.sstable of the directory.
openSsTables(fs) == [id \in DOMAIN fs |-> openSsTable(id, fs)]

MaxSeq(ids) == IF ids = {} THEN 0 ELSE MaxId(ids)

\* OpenLsm returns err: no engine.
OpenFails(err) ==
    /\ Gone("down", "openerr")
    /\ blocked' = EmptyMap
    /\ ret' = Call("Open", EmptyStr, EmptyStr, err)
    /\ UNCHANGED <<wal, walSynced, files, nops, nfaults, last, atClose, crashed>>

\* OpenLsm past restoreFromLog's loop: r is what the newSsTable of its
\* compact(true, false) gave for seq t.  killed: the process is terminated
\* after this flush, before lsm.log is opened again with O_TRUNC.
OpenFlush(tables, t, r) ==
    IF r.err = "panic"
    THEN /\ Gone("down", "nilderef")
         /\ files' = r.fs
         /\ blocked' = EmptyMap
         /\ ret' = NoCall
         /\ UNCHANGED <<wal, walSynced, nops, nfaults, last, atClose, crashed>>
    ELSE IF r.err # "nil" THEN OpenFails(r.err)
    ELSE \E killed \in BOOLEAN :
           IF killed
           THEN /\ Gone("down", "killed")
                /\ files' = r.fs
                /\ blocked' = EmptyMap
                /\ ret' = NoCall
                /\ atClose' = <<>>
                /\ crashed' = TRUE
                /\ UNCHANGED <<wal, walSynced, nops, nfaults, last>>
           ELSE /\ proc' = "up"
                /\ fault' = "none"
                /\ nodeMap' = EmptyMap
                /\ ssTableMap' = MapPut(tables, t, r.st)
                /\ time' = t
                /\ closing' = FALSE
                /\ compactChan' = 0
                /\ bg' = "select"
                /\ mrg' = NoMerge
                /\ closer' = "none"
                /\ blocked' = EmptyMap
                /\ wal' = <<>>
                /\ walSynced' = 0
                /\ files' = r.fs
                /\ ret' = Call("Open", EmptyStr, EmptyStr, "nil")
                /\ UNCHANGED <<nops, nfaults, last, atClose, crashed>>

\* OpenLsm past openSsTables: replay is what restoreFromLog's loop gave.
OpenRestore(tables, t, replay) ==
    IF replay.err # "nil" THEN OpenFails(replay.err)
    ELSE /\ t <= MaxTime
         /\ OpenFlush(tables, t, newSsTable(t, replay.map, files))

\* OpenLsm whose flush takes the number of tables plus one as its seq.
OpenTablesCount(opened) ==
    LET bad == {id \in DOMAIN opened : opened[id].err # "nil"}
    IN IF bad # {} THEN OpenFails(opened[MaxId(bad)].err)
       ELSE OpenRestore([id \in DOMAIN opened |-> opened[id].st],
                        Cardinality(DOMAIN opened) + 1,
                        restoreLoop(wal, 0, EmptyMap))

\* OpenLsm after openSsTables gave opened.
OpenTables(opened) ==
    LET bad == {id \in DOMAIN opened : opened[id].err # "nil"}
    IN IF bad # {} THEN OpenFails(opened[MaxId(bad)].err)
       ELSE OpenRestore([id \in DOMAIN opened |-> opened[id].st],
                        MaxSeq(DOMAIN opened) + 1,
                        restoreLoop(wal, 0, EmptyMap))

\* OpenLsm over the directory of a closed or terminated store.
OpenLsm ==
    /\ Idle
    /\ UNCHANGED <<test, mtest, rd, stest>>
    /\ proc \in {"closed", "down"}
    /\ OpenTables(openSsTables(files))

\* The caller takes the result of its call.
Return ==
    /\ ret # NoCall
    /\ UNCHANGED <<test, mtest, rd, stest>>
    /\ ret' = NoCall
    /\ UNCHANGED <<proc, fault, nodeMap, ssTableMap, time, closing, compactChan,
                   bg, mrg, closer, blocked, wal, walSynced, files, nops, nfaults,
                   last, atClose, crashed>>

(***************************************************************************)
(* The specification.                                                      *)
(***************************************************************************)
\* What goes on around the calls of Set, Delete and Get: callers finishing
\* their sends and taking their results, the Background goroutine, Close,
\* termination and OpenLsm.
LsmSteps ==
    \/ \E key \in KeyStrs : SendDone(key)
    \/ BgMergeTick
    \/ BgCompactTick
    \/ BgCompactSignal
    \/ CompactLocked
    \/ MergeStart
    \/ MergeIO
    \/ MergeSwap
    \/ ErasePrev
    \/ EraseCurr
    \/ CloseBegin
    \/ CloseStop
    \/ CloseFinish
    \/ Kill
    \/ OpenLsm
    \/ Return

Next ==
    \/ \E key \in KeyStrs \cup {EmptyStr}, value \in ValueStrs \cup {EmptyStr} :
         Set(key, value)
    \/ \E key \in KeyStrs \cup {EmptyStr} : Delete(key)
    \/ \E key \in KeyStrs \cup {EmptyStr} : Get(key)
    \/ LsmSteps

Spec == Init /\ [][Next]_vars

(***************************************************************************)
(* The same store on a disk that can tear the last append of lsm.log.      *)
(***************************************************************************)
\* What the append of the words rec can leave at the end of lsm.log when the
\* process is terminated in it: a proper prefix of rec (a short header, the
\* header alone, a short key or value), or all of rec with its magic or its
\* checksum garbled.
TornTails(rec) ==
    {SubSeq(rec, 1, n) : n \in 1..(Len(rec) - 1)}
      \cup {[rec EXCEPT ![1] = 0], [rec EXCEPT ![HeaderWords] = (@ + 1) % 65521]}

\* The process is terminated inside logSet / logDelete of record node.
KillInAppend(node, tail) ==
    /\ Idle
    /\ UNCHANGED <<test, mtest, rd, stest>>
    /\ proc = "up"
    /\ nops < MaxOps
    /\ node.key \notin DOMAIN blocked
    /\ nops' = nops + 1
    /\ wal' = wal \o tail
    /\ Gone("down", "killed")
    /\ blocked' = EmptyMap
    /\ ret' = NoCall
    /\ atClose' = <<>>
    /\ crashed' = TRUE
    /\ UNCHANGED <<walSynced, files, nfaults, last>>

\* The records Set and Delete log.
LogNodes ==
    {logSetNode(key, value) : key \in KeyStrs, value \in ValueStrs}
      \cup {logDeleteNode(key) : key \in KeyStrs}

NextTorn ==
    \/ Next
    \/ \E node \in LogNodes : \E tail \in TornTails(WriteTo(node)) :
         KillInAppend(node, tail)

SpecTorn == Init /\ [][NextTorn]_vars

(***************************************************************************)
(* The same store on a disk whose table I/O can fail: newSsTable and       *)
(* mergeSsTable return an error, which compact and mergeSsTables return to *)
(* Background (bg = "compactErr", "mergeErr"), and Background drops it.    *)
(***************************************************************************)
\* compact that registers a handle for seq t before newSsTable has written
\* and synced the file, and returns the error of r.
CompactFailsRegistered(t, r) ==
    /\ r.err \notin {"nil", "panic"}
    /\ time' = t
    /\ files' = r.fs
    /\ ssTableMap' = MapPut(ssTableMap, t, [NoSsTable EXCEPT !.filePath = t])
    /\ bg' = "compactErr"
    /\ ret' = NoCall
    /\ UNCHANGED <<proc, fault, nodeMap, closing, compactChan, mrg, closer,
                   blocked, wal, walSynced, nops, nfaults, last, atClose, crashed>>

\* compact past its second check when newSsTable returned the error of r for
\* seq t: return err, the memtable lock released by the deferred Unlock.
CompactFails(t, r) ==
    /\ r.err \notin {"nil", "panic"}
    /\ time' = t
    /\ files' = r.fs
    /\ bg' = "compactErr"
    /\ ret' = NoCall
    /\ UNCHANGED <<proc, fault, nodeMap, ssTableMap, closing, compactChan, mrg, closer,
                   blocked, wal, walSynced, nops, nfaults, last, atClose, crashed>>

\* compact(false, true), under the write lock, with a fault in newSsTable.
CompactLockedIo(io) ==
    /\ Idle
    /\ UNCHANGED <<test, mtest, rd, stest>>
    /\ proc = "up"
    /\ bg = "compactLock"
    /\ shouldCompact(FALSE, closing, nodeMap)
    /\ time < MaxTime
    /\ CompactFails(time + 1, newSsTableIo(time + 1, nodeMap, files, io))

\* Background drops the error of compact and calls mergeSsTables.
CompactReturned ==
    /\ Idle
    /\ UNCHANGED <<test, mtest, rd, stest>>
    /\ proc = "up"
    /\ bg = "compactErr"
    /\ bg' = "merge"
    /\ BgUnchanged

\* mergeSsTables when mergeSsTable returned the error of r: return err.
MergeFails(r) ==
    /\ r.err \notin {"nil", "panic"}
    /\ files' = r.fs
    /\ bg' = "mergeErr"
    /\ mrg' = NoMerge
    /\ ret' = NoCall
    /\ UNCHANGED <<proc, fault, nodeMap, ssTableMap, time, closing, compactChan,
                   closer, blocked, wal, walSynced, nops, nfaults, last, atClose, crashed>>

\* mergeSsTables: the call of mergeSsTable with a fault in its I/O.
MergeIOFails(io) ==
    /\ Idle
    /\ UNCHANGED <<test, mtest, rd, stest>>
    /\ proc = "up"
    /\ bg = "mergeIO"
    /\ MergeFails(mergeSsTableIo(ssTableMap[mrg.prevStId], ssTableMap[mrg.currStId],
                                 mrg.time, files, io))

\* Background drops the error of mergeSsTables and selects again.
MergeReturned ==
    /\ Idle
    /\ UNCHANGED <<test, mtest, rd, stest>>
    /\ proc = "up"
    /\ bg = "mergeErr"
    /\ bg' = "select"
    /\ BgUnchanged

\* OpenLsm with a fault in the newSsTable of its compact(true, false):
\* restoreFromLog returns the error, OpenLsm closes the tables and lsm.log
\* and returns it.
OpenLsmIo(io) ==
    /\ Idle
    /\ UNCHANGED <<test, mtest, rd, stest>>
    /\ proc \in {"closed", "down"}
    /\ \A id \in DOMAIN files : openSsTable(id, files).err = "nil"
    /\ restoreLoop(wal, 0, EmptyMap).err = "nil"
    /\ MaxSeq(DOMAIN files) + 1 <= MaxTime
    /\ newSsTableIo(MaxSeq(DOMAIN files) + 1, restoreLoop(wal, 0, EmptyMap).map,
                    files, io).err \notin {"nil", "panic"}
    /\ files' = newSsTableIo(MaxSeq(DOMAIN files) + 1, restoreLoop(wal, 0, EmptyMap).map,
                             files, io).fs
    /\ Gone("down", "openerr")
    /\ blocked' = EmptyMap
    /\ ret' = Call("Open", EmptyStr, EmptyStr, io)
    /\ UNCHANGED <<wal, walSynced, nops, nfaults, last, atClose, crashed>>

NextIo ==
    \/ Next
    \/ \E io \in TableFaults : CompactLockedIo(io)
    \/ CompactReturned
    \/ \E io \in MergeFaults : MergeIOFails(io)
    \/ MergeReturned
    \/ \E io \in TableFaults : OpenLsmIo(io)

SpecIo == Init /\ [][NextIo]_vars

(***************************************************************************)
(* The codec test: nodes written to a temporary file one after the other,  *)
(* the file rewound, and the nodes read back.                              *)
(***************************************************************************)
\* The nodes of the test: live ones and tombstones, keys and values empty
\* or not.
TestNodes ==
    {[newLsmNode(key, value) EXCEPT !.deleted = deleted] :
       key \in KeyStrs \cup {EmptyStr}, value \in ValueStrs \cup {EmptyStr},
       deleted \in BOOLEAN}

\* Every variable of the engine, which the test does not touch.
lsmVars ==
    <<proc, fault, nodeMap, ssTableMap, time, closing, compactChan,
      bg, mrg, closer, blocked, wal, walSynced, files, ret, nops, nfaults,
      last, atClose, crashed>>

\* n.WriteTo(f)
TestWriteTo(node) ==
    /\ Len(test.n) < MaxNodes
    /\ test.rn = <<>>
    /\ test.off = Len(test.f)
    /\ test' = [test EXCEPT !.f = @ \o WriteTo(node),
                            !.off = Len(test.f) + Len(WriteTo(node)),
                            !.n = Append(@, node)]
    /\ UNCHANGED lsmVars
    /\ UNCHANGED <<mtest, rd, stest>>

\* f.Seek(0, os.SEEK_SET)
TestSeek ==
    /\ Len(test.n) > 0
    /\ test.rn = <<>>
    /\ test.off = Len(test.f)
    /\ test' = [test EXCEPT !.off = 0]
    /\ UNCHANGED lsmVars
    /\ UNCHANGED <<mtest, rd, stest>>

\* rn.ReadFrom(f), r being what it gives at the file's offset.
TestRead(r) ==
    /\ test' = [test EXCEPT !.off = r.pos, !.rn = Append(@, r)]
    /\ UNCHANGED lsmVars
    /\ UNCHANGED <<mtest, rd, stest>>

TestReadFrom ==
    /\ Len(test.rn) < Len(test.n)
    /\ test.off = 0 \/ Len(test.rn) > 0
    /\ TestRead(ReadFrom(test.f, test.off))

NextCodec ==
    \/ \E node \in TestNodes : TestWriteTo(node)
    \/ TestSeek
    \/ TestReadFrom

SpecCodec == Init /\ [][NextCodec]_vars

(***************************************************************************)
(* mergeSsTable on its own: two table files are written, lsm_1.sstable the *)
(* older and lsm_2.sstable the newer, and merged into lsm_3.sstable.  The  *)
(* files hold records in ascending key order, one for a key at most, live  *)
(* records and tombstones, as the table format has them.                   *)
(***************************************************************************)
\* What a table file holds of a key: nothing, a live record, a tombstone.
KeyChoices == {<<"absent">>, <<"deleted">>} \cup {<<"value", v>> : v \in ValueStrs}

RecordOfChoice(key, c) ==
    IF c[1] = "absent" THEN <<>>
    ELSE IF c[1] = "deleted" THEN WriteTo(logDeleteNode(key))
    ELSE WriteTo(newLsmNode(key, c[2]))

\* The words of the table file that holds choice[key] of every key of keys.
RECURSIVE TableFile(_, _)
TableFile(keys, choice) ==
    IF Len(keys) = 0 THEN <<>>
    ELSE RecordOfChoice(Head(keys), choice[Head(keys)]) \o TableFile(Tail(keys), choice)

TableFiles ==
    {TableFile(SortStrings(RangeKeys(KeyStrs)), choice) : choice \in [KeyStrs -> KeyChoices]}

\* The two input files are written.
TestMergeFiles(prev, curr) ==
    /\ mtest = NoMergeTest
    /\ mtest' = [prev |-> prev, curr |-> curr, res |-> <<>>]
    /\ UNCHANGED lsmVars
    /\ UNCHANGED <<test, rd, stest>>

\* mergeSsTable(prevSt, currSt, newFilePath) on the handles of the two files.
TestMergeSsTable ==
    /\ mtest # NoMergeTest
    /\ mtest.res = <<>>
    /\ mtest' = [mtest EXCEPT !.res =
                   <<mergeSsTable([NoSsTable EXCEPT !.filePath = 1],
                                  [NoSsTable EXCEPT !.filePath = 2], 3,
                                  MapPut(MapPut(EmptyMap, 1, mtest.prev), 2, mtest.curr))>>]
    /\ UNCHANGED lsmVars
    /\ UNCHANGED <<test, rd, stest>>

NextMerge ==
    \/ \E prev \in TableFiles, curr \in TableFiles : TestMergeFiles(prev, curr)
    \/ TestMergeSsTable

SpecMerge == Init /\ [][NextMerge]_vars

(***************************************************************************)
(* The calls of Get followed through their locks.  Get holds nodeMapLock   *)
(* for reading from its lookup in the memtable to its return, and          *)
(* lookupSsTables holds ssTableMapLock for reading from the collection of   *)
(* the ids to its return; every SsTable.Get in between is one step.  The   *)
(* steps that take one of the two locks for writing wait while the call    *)
(* holds it.                                                               *)
(***************************************************************************)
\* The keys read: those written, and one that is never written.
ReadKeys == KeyStrs \cup {<<NKeys + 1>>}

\* closeSsTables leaves every handle in lsm.ssTableMap with its index and an
\* empty filePath; the handles are those of the files of the directory.
ClosedTables ==
    [id \in DOMAIN files |-> [openSsTable(id, files).st EXCEPT !.filePath = 0]]

\* lsm.ssTableMap as a call of Get reads it.
TablesSeen == IF proc = "closed" THEN ClosedTables ELSE ssTableMap

\* What the steps of a call of Get leave alone.
GetUnchanged ==
    UNCHANGED <<proc, fault, nodeMap, ssTableMap, time, closing, compactChan,
                bg, mrg, closer, blocked, wal, walSynced, files, nops, nfaults,
                last, atClose, crashed>>

\* Get(key) from nodeMapLock.RLock to the lookup in the memtable: a hit
\* returns, a miss goes on to lookupSsTables.
GetBegin(key) ==
    /\ Idle
    /\ UNCHANGED <<test, mtest, stest>>
    /\ proc = "up"
    /\ rd = NoRead
    /\ IF key \in DOMAIN nodeMap
       THEN /\ ret' = Call("Get", key, GetResult(key).value, GetResult(key).err)
            /\ rd' = NoRead
       ELSE /\ ret' = NoCall
            /\ rd' = [pos |-> "lookup", key |-> key, ids |-> {}]
    /\ GetUnchanged

\* lookupSsTables: ssTableMapLock.RLock and the ids of the table set.  In a
\* process that is gone the call is gone with it.
GetLookup ==
    /\ Idle
    /\ UNCHANGED <<test, mtest, stest>>
    /\ rd.pos = "lookup"
    /\ IF proc = "down"
       THEN /\ ret' = NoCall
            /\ rd' = NoRead
       ELSE IF DOMAIN TablesSeen = {}
       THEN /\ ret' = Call("Get", rd.key, EmptyStr, "ErrNotFound")
            /\ rd' = NoRead
       ELSE /\ ret' = NoCall
            /\ rd' = [rd EXCEPT !.pos = "tables", !.ids = DOMAIN TablesSeen]
    /\ GetUnchanged

\* st := lsm.ssTableMap[id]; st.Get(key).  An id the map does not hold gives
\* a nil handle, whose Get dereferences it.
GetTableResult(id) ==
    IF id \in DOMAIN TablesSeen THEN SsTableGet(TablesSeen[id], files, rd.key)
    ELSE GetErr("panic")

\* One round of the loop of lookupSsTables, r being what table id gave: on
\* to the next id, or out of lookupSsTables and Get with both locks released.
GetTableDone(id, r) ==
    IF r.err = "ErrNotFound" /\ rd.ids # {id}
    THEN /\ ret' = NoCall
         /\ rd' = [rd EXCEPT !.ids = rd.ids \ {id}]
    ELSE /\ ret' = Call("Get", rd.key,
                        lookupNext({id}, id, TablesSeen, files, rd.key, r).value,
                        lookupNext({id}, id, TablesSeen, files, rd.key, r).err)
         /\ rd' = NoRead

GetTable ==
    /\ Idle
    /\ UNCHANGED <<test, mtest, stest>>
    /\ rd.pos = "tables"
    /\ IF proc = "down"
       THEN /\ ret' = NoCall
            /\ rd' = NoRead
       ELSE GetTableDone(MaxId(rd.ids), GetTableResult(MaxId(rd.ids)))
    /\ GetUnchanged

\* nodeMapLock.Lock() returns: no call of Get holds the lock for reading.
\* After compact's RUnlock of the lock it held for writing (fault
\* "lockcorrupt", a reader queued at that moment is never woken) the lock
\* counts one reader too few, and Lock returns with a reader inside.
NodeMapLockFree == rd = NoRead \/ fault = "lockcorrupt"

\* ssTableMapLock.Lock() returns: no call of Get is inside lookupSsTables.
TableSetLockFree == rd.pos # "tables"

\* The steps that take nodeMapLock for writing.
SetLocked(key, value) == NodeMapLockFree /\ Set(key, value)

DeleteLocked(key) == NodeMapLockFree /\ Delete(key)

CompactWriteLocked == NodeMapLockFree /\ TableSetLockFree /\ CompactLocked

CloseBeginLocked == NodeMapLockFree /\ CloseBegin

CloseFinishLocked == NodeMapLockFree /\ CloseFinish

\* The swap of mergeSsTables takes ssTableMapLock for writing.
MergeSwapLocked == TableSetLockFree /\ MergeSwap

\* OpenLsm builds a new engine once the calls on the old one are over.
OpenLsmAfterReads == rd = NoRead /\ OpenLsm

NextRead ==
    \/ \E key \in KeyStrs, value \in ValueStrs : SetLocked(key, value)
    \/ \E key \in KeyStrs : DeleteLocked(key)
    \/ \E key \in ReadKeys : GetBegin(key)
    \/ GetLookup
    \/ GetTable
    \/ \E key \in KeyStrs : SendDone(key)
    \/ BgMergeTick
    \/ BgCompactTick
    \/ BgCompactSignal
    \/ CompactWriteLocked
    \/ MergeStart
    \/ MergeIO
    \/ MergeSwapLocked
    \/ ErasePrev
    \/ EraseCurr
    \/ CloseBeginLocked
    \/ CloseStop
    \/ CloseFinishLocked
    \/ Kill
    \/ OpenLsmAfterReads
    \/ Return

SpecRead == Init /\ [][NextRead]_vars

(***************************************************************************)
(* One run of an engine made by NewLsm on an empty directory: calls of Set *)
(* and Delete whose log writes succeed, and the Background goroutine with  *)
(* its timers.  The engine is neither closed nor terminated from outside.  *)
(***************************************************************************)
SetRun(key, value) ==
    /\ Idle
    /\ UNCHANGED <<test, mtest, rd, stest>>
    /\ proc = "up"
    /\ nops < MaxRunOps
    /\ Written("Set", key, value, logSetNode(key, value),
               SetNode(nodeMap, key, value), "set", "ok")

DeleteRun(key) ==
    /\ Idle
    /\ UNCHANGED <<test, mtest, rd, stest>>
    /\ proc = "up"
    /\ nops < MaxRunOps
    /\ Written("Delete", key, EmptyStr, logDeleteNode(key),
               DeleteNode(nodeMap, key), "del", "ok")

NextRun ==
    \/ \E key \in KeyStrs, value \in ValueStrs : SetRun(key, value)
    \/ \E key \in KeyStrs : DeleteRun(key)
    \/ \E key \in KeyStrs : SendDone(key)
    \/ BgMergeTick
    \/ BgCompactTick
    \/ BgCompactSignal
    \/ CompactLocked
    \/ MergeStart
    \/ MergeIO
    \/ MergeSwap
    \/ ErasePrev
    \/ EraseCurr
    \/ Return

SpecRun == Init /\ [][NextRun]_vars

(***************************************************************************)
(* Tables on their own: newSsTable on two memtables of live nodes, the     *)
(* mergeSsTable of the two tables, and SsTable.Get on any of them.         *)
(***************************************************************************)
TableKeys == {<<i>> : i \in 1..MaxTableKeys}

\* The memtable that holds value under every key of keys.
MemtableOf(keys, value) == [k \in keys |-> newLsmNode(k, value)]

\* The older memtable holds the one-byte value, the newer the two-byte one.
PrevValue == <<1>>

CurrValue == <<2, 1>>

\* prev is flushed into lsm_1.sstable, then curr into lsm_2.sstable.
TestNewSsTables(prevKeys, currKeys) ==
    /\ ~stest.built
    /\ stest' =
         [built |-> TRUE,
          prev |-> MemtableOf(prevKeys, PrevValue),
          curr |-> MemtableOf(currKeys, CurrValue),
          fs |-> newSsTable(2, MemtableOf(currKeys, CurrValue),
                            newSsTable(1, MemtableOf(prevKeys, PrevValue), EmptyMap).fs).fs,
          tables |-> MapPut(MapPut(EmptyMap,
                       1, newSsTable(1, MemtableOf(prevKeys, PrevValue), EmptyMap).st),
                       2, newSsTable(2, MemtableOf(currKeys, CurrValue), EmptyMap).st),
          read |-> <<>>]
    /\ UNCHANGED lsmVars
    /\ UNCHANGED <<test, mtest, rd>>

\* mergeSsTable gave r for tables 1 and 2 and the new path 3.
TestMerged(r) ==
    /\ r.err = "nil"
    /\ stest' = [stest EXCEPT !.fs = r.fs, !.tables = MapPut(@, 3, r.st), !.read = <<>>]

TestMergeTables ==
    /\ stest.built
    /\ 3 \notin DOMAIN stest.tables
    /\ TestMerged(mergeSsTable(stest.tables[1], stest.tables[2], 3, stest.fs))
    /\ UNCHANGED lsmVars
    /\ UNCHANGED <<test, mtest, rd>>

\* minKey <= key <= maxKey as SsTable.Get checks it: a nil bound lets every
\* key pass.
InRange(st, key) ==
    /\ ~(Len(st.minKey) > 0 /\ StrLess(key, st.minKey[1]))
    /\ ~(Len(st.maxKey) > 0 /\ StrLess(st.maxKey[1], key))

\* keyIndex of SsTable.Get(key) on handle st, -1 when Get returns before it
\* searches st.keys.
GetKeyIndex(st, key) ==
    IF InRange(st, key) THEN keyIndexOf(SearchStrings(st.keys, key)) ELSE -1

\* offset of SsTable.Get(key): st.keyToOffset[st.keys[keyIndex]], -1 when
\* Get does not come to it.
GetOffset(st, key) ==
    IF InRange(st, key) /\ GetKeyIndex(st, key) < Len(st.keys)
    THEN st.keyToOffset[st.keys[GetKeyIndex(st, key) + 1]]
    ELSE -1

\* st.Get(key) on the table id.
TestGet(id, key) ==
    /\ stest.built
    /\ id \in DOMAIN stest.tables
    /\ stest' = [stest EXCEPT !.read =
                   <<[id |-> id, key |-> key,
                      res |-> SsTableGet(stest.tables[id], stest.fs, key),
                      keyIndex |-> GetKeyIndex(stest.tables[id], key),
                      offset |-> GetOffset(stest.tables[id], key)]>>]
    /\ UNCHANGED lsmVars
    /\ UNCHANGED <<test, mtest, rd>>

NextTable ==
    \/ \E prevKeys \in SUBSET TableKeys, currKeys \in SUBSET TableKeys :
         TestNewSsTables(prevKeys, currKeys)
    \/ TestMergeTables
    \/ \E id \in 1..3, key \in TableKeys : TestGet(id, key)

SpecTable == Init /\ [][NextTable]_vars

(***************************************************************************)
(* The HTTP adapter (mds/core/server.go): the handlers of /set/{key},      *)
(* /get/{key} and /delete/{key} over the engine.  A request body is        *)
(* well-formed JSON with its Value field, or not JSON; ret is the error    *)
(* the handler completes the request with.                                 *)
(***************************************************************************)
Bodies ==
    {[json |-> FALSE, Value |-> EmptyStr]}
      \cup {[json |-> TRUE, Value |-> value] : value \in ValueStrs \cup {EmptyStr}}

\* decodeJson returns the decoder's error as it is.
decodeJson(body) == IF body.json THEN "nil" ELSE "SyntaxError"

errorToHttpStatus(err) ==
    CASE err = "nil" -> 200
      [] err = "ErrBadRequest" -> 400
      [] err = "ErrNotFound" -> 404
      [] err = "ErrAlreadyExists" -> 409
      [] OTHER -> 500

setKey(key, body) ==
    /\ Idle
    /\ UNCHANGED <<test, mtest, rd, stest>>
    /\ proc = "up"
    /\ IF decodeJson(body) # "nil"
       THEN Reject("setKey", key, EmptyStr, decodeJson(body))
       ELSE IF key = EmptyStr \/ body.Value = EmptyStr
       THEN Reject("setKey", key, body.Value, "ErrBadRequest")
       ELSE \E io \in {"ok", "writeErr", "syncErr"} :
              Write("setKey", key, body.Value, logSetNode(key, body.Value),
                    SetNode(nodeMap, key, body.Value), "set", io)

deleteKey(key, body) ==
    /\ Idle
    /\ UNCHANGED <<test, mtest, rd, stest>>
    /\ proc = "up"
    /\ IF decodeJson(body) # "nil"
       THEN Reject("deleteKey", key, EmptyStr, decodeJson(body))
       ELSE IF key = EmptyStr
       THEN Reject("deleteKey", key, EmptyStr, "ErrBadRequest")
       ELSE \E io \in {"ok", "writeErr", "syncErr"} :
              Write("deleteKey", key, EmptyStr, logDeleteNode(key),
                    DeleteNode(nodeMap, key), "del", io)

getKey(key, body) ==
    /\ Idle
    /\ UNCHANGED <<test, mtest, rd, stest>>
    /\ proc = "up"
    /\ IF decodeJson(body) # "nil"
       THEN Reject("getKey", key, EmptyStr, decodeJson(body))
       ELSE IF key = EmptyStr
       THEN Reject("getKey", key, EmptyStr, "ErrBadRequest")
       ELSE /\ ret' = Call("getKey", key, GetResult(key).value, GetResult(key).err)
            /\ UNCHANGED <<proc, fault, nodeMap, ssTableMap, time, closing, compactChan,
                           bg, mrg, closer, blocked, wal, walSynced, files, nops,
                           nfaults, last, atClose, crashed>>

NextHttp ==
    \/ \E key \in KeyStrs \cup {EmptyStr}, body \in Bodies : setKey(key, body)
    \/ \E key \in KeyStrs \cup {EmptyStr}, body \in Bodies : deleteKey(key, body)
    \/ \E key \in KeyStrs \cup {EmptyStr}, body \in Bodies : getKey(key, body)
    \/ LsmSteps

SpecHttp == Init /\ [][NextHttp]_vars

(***************************************************************************)
(* The claims of the specification.                                        *)
(***************************************************************************)
NotFound == GetErr("ErrNotFound")

\* What a Get of key k has to return after the write w, the last one to k
\* that returned nil: nothing is asked when there is none or when a later
\* write to k failed in Sync.
Reads(k, w) ==
    CASE w.kind = "set" -> GetResult(k) = GetOk(w.value)
      [] w.kind = "del" -> GetResult(k) = NotFound
      [] OTHER -> TRUE

\* C1: a Set(k, v) that returned nil is followed by a Get(k) that returns v,
\* also when the memtable held a tombstone of k.
C1_SetThenGet ==
    (ret.op = "Set" /\ ret.err = "nil") => GetResult(ret.key) = GetOk(ret.value)

\* C2: once Delete(k) has returned nil and no later write to k has, the store
\* keeps serving and Get(k) returns ErrNotFound, the tombstone being in the
\* memtable or flushed to a table: no flush of it stops the process.
C2_DeleteThenGet ==
    \A k \in KeyStrs :
      last[k].kind = "del" =>
        /\ fault # "nilderef"
        /\ proc = "up" => GetResult(k) = NotFound

\* C3: after Close and OpenLsm, Get returns for every key what it returned
\* when Close finished.
C3_CloseReopen ==
    atClose # <<>> =>
      \/ proc = "closed"
      \/ proc = "up" /\ \A k \in KeyStrs : GetResult(k) = atClose[1][k]

\* C4: after the process was terminated from outside, OpenLsm brings the
\* store up and Get returns for every key the last write that returned nil.
C4_CrashRecovery ==
    crashed =>
      /\ fault \notin {"nilderef", "openerr"}
      /\ proc = "up" => \A k \in KeyStrs : Reads(k, last[k])

\* The step appended the record of node to lsm.log and an fsync covered it.
Logged(node) == wal' = wal \o WriteTo(node) /\ walSynced' = Len(wal')

\* The record the call c of Set or Delete logs.
NodeOf(c) == IF c.op = "Set" THEN logSetNode(c.key, c.value) ELSE logDeleteNode(c.key)

\* The call c is a Set or a Delete that returns err.
Wrote(c, errs) == c.op \in {"Set", "Delete"} /\ c.err \in errs

\* The call of Set or Delete made in this step, <<>> when it made none: it
\* has returned, or waits in its send on compactChan.
CallMade ==
    IF nops' = nops THEN <<>>
    ELSE IF ret' # NoCall THEN <<ret'>>
    ELSE IF DOMAIN blocked' \ DOMAIN blocked # {}
    THEN <<blocked'[CHOOSE k \in DOMAIN blocked' : k \notin DOMAIN blocked]>>
    ELSE <<>>

\* C5: a Set or Delete that returns nil has appended its record to lsm.log
\* and fsynced it, and the memtable takes a write only in a step that did
\* both.
C5_LogBeforeMemtable ==
    [][/\ \A i \in DOMAIN CallMade :
            Wrote(CallMade[i], {"nil"}) => Logged(NodeOf(CallMade[i]))
       /\ (proc = "up" /\ nodeMap' # nodeMap /\ nodeMap' # EmptyMap) =>
            \E node \in LogNodes : Logged(node) /\ node.key \in DOMAIN nodeMap'
      ]_vars

C5_Witness ==
    /\ ret.op = "Delete"
    /\ ret.err = "nil"
    /\ ret.key \in DOMAIN nodeMap
    /\ Len(wal) > Len(WriteTo(logDeleteNode(ret.key)))
    /\ walSynced = Len(wal)

\* C6: while the store is up, Get(k) returns the last write to k that has
\* returned nil, whatever flushes and merges ran since; so for callers on
\* keys of their own, Set then Get gives the value and Delete then Get
\* gives ErrNotFound.
C6_ReadYourWrites ==
    proc = "up" => \A k \in KeyStrs : Reads(k, last[k])

\* C7: a Set(k, v2) that returns nil after a Set(k, v1) that did, with no
\* other write to k between them, leaves Get(k) = v2.
C7_LastSetWins ==
    [][\A k \in KeyStrs :
         (/\ last[k].kind = "set"
          /\ last'[k].kind = "set"
          /\ last'[k].value # last[k].value
          /\ proc' = "up")
         => (GetResult(k) = GetOk(last[k].value))'
      ]_vars

\* C8: OpenLsm does not fail on a lsm.log whose last record is torn or
\* garbled: the replay ends there and the store comes up.
C8_TornTailReplay == fault # "openerr"

\* C9: a Set or Delete whose log append or fsync fails returns that error
\* and leaves the memtable and the table set as they were.
C9_LogFailure ==
    [][nfaults' # nfaults =>
         /\ \E i \in DOMAIN CallMade : Wrote(CallMade[i], {"writeErr", "syncErr"})
         /\ nodeMap' = nodeMap
         /\ ssTableMap' = ssTableMap
      ]_vars

C9_Witness ==
    /\ Wrote(ret, {"syncErr"})
    /\ ret.key \in DOMAIN nodeMap
    /\ nodeMap[ret.key].value # ret.value
    /\ DOMAIN ssTableMap # {}

\* C10: Set, Get and Delete with an empty key return ErrEmptyKey, Set with a
\* key and an empty value returns ErrEmptyValue, and such a call leaves
\* lsm.log, the memtable, the table set and compactChan as they were.
C10_Rejected ==
    [][(ret' # NoCall /\ ret'.op \in {"Set", "Get", "Delete"}) =>
         /\ ret'.key = EmptyStr =>
              /\ ret'.err = "ErrEmptyKey"
              /\ UNCHANGED <<wal, walSynced, nodeMap, ssTableMap, compactChan, blocked>>
         /\ (ret'.op = "Set" /\ ret'.key # EmptyStr /\ ret'.value = EmptyStr) =>
              /\ ret'.err = "ErrEmptyValue"
              /\ UNCHANGED <<wal, walSynced, nodeMap, ssTableMap, compactChan, blocked>>
      ]_vars

C10_Witness ==
    /\ ret.op = "Set"
    /\ ret.err = "ErrEmptyValue"
    /\ nodeMap # EmptyMap
    /\ Len(wal) > 0
    /\ compactChan = 0

\* C11: a Delete of a key (in the memtable or not, stored in a table or not)
\* returns nil when lsm.log takes its record, and a Delete of a key whose
\* tombstone the memtable already holds leaves the memtable and the Get
\* result of every key as they were.
C11_DeleteTwice ==
    [][\A i \in DOMAIN CallMade :
         (CallMade[i].op = "Delete" /\ nfaults' = nfaults) =>
           /\ CallMade[i].err = "nil"
           /\ (CallMade[i].key \in DOMAIN nodeMap /\ nodeMap[CallMade[i].key].deleted) =>
                /\ nodeMap' = nodeMap
                /\ \A k \in KeyStrs : GetResult(k)' = GetResult(k)
      ]_vars

\* A Delete has returned nil, lsm.log ends in two tombstone records of its
\* key, and the memtable's node of the key still carries the value of the
\* Set before them.
C11_Witness ==
    /\ ret.op = "Delete"
    /\ ret.err = "nil"
    /\ ret.key \in DOMAIN nodeMap
    /\ nodeMap[ret.key].deleted
    /\ nodeMap[ret.key].value # EmptyStr
    /\ LET rec == WriteTo(logDeleteNode(ret.key))
       IN  /\ Len(wal) > 2 * Len(rec)
           /\ SubSeq(wal, Len(wal) - 2 * Len(rec) + 1, Len(wal)) = rec \o rec

\* What the records of the table file f say of key, read one after the
\* other from word offset pos: its value, ErrDeleted for a tombstone,
\* ErrNotFound when no record has the key.
RECURSIVE StoredIn(_, _, _)
StoredIn(f, pos, key) ==
    IF ReadFrom(f, pos).err = "EOF" THEN NotFound
    ELSE IF ReadFrom(f, pos).err # "nil" THEN GetErr(ReadFrom(f, pos).err)
    ELSE IF ReadFrom(f, pos).node.key # key THEN StoredIn(f, ReadFrom(f, pos).pos, key)
    ELSE IF ReadFrom(f, pos).node.deleted THEN GetErr("ErrDeleted")
    ELSE GetOk(ReadFrom(f, pos).node.value)

\* What the table with seq id stores of key.
StoredAt(id, key) ==
    IF ssTableMap[id].filePath \notin DOMAIN files THEN GetErr("ErrNotExist")
    ELSE StoredIn(files[ssTableMap[id].filePath], 0, key)

\* The tables of ids taken in decreasing seq order: the first that stores
\* key decides.
RECURSIVE Resolve(_, _)
Resolve(ids, key) ==
    IF ids = {} THEN NotFound
    ELSE LET id == CHOOSE x \in ids : \A y \in ids : y <= x
         IN  IF StoredAt(id, key).err = "nil" THEN StoredAt(id, key)
             ELSE IF StoredAt(id, key).err = "ErrDeleted" THEN NotFound
             ELSE IF StoredAt(id, key).err # "ErrNotFound" THEN StoredAt(id, key)
             ELSE Resolve(ids \ {id}, key)

\* C12: Get(k) returns what the memtable's node of k says when there is
\* one, else what the newest table that stores k says, and ErrNotFound
\* when no table stores k.
C12_GetPrecedence ==
    proc = "up" =>
      \A k \in KeyStrs :
        GetResult(k) = IF k \in DOMAIN nodeMap
                       THEN IF nodeMap[k].deleted THEN NotFound
                            ELSE GetOk(nodeMap[k].value)
                       ELSE Resolve(DOMAIN ssTableMap, k)

\* C13: a caller of Set or Delete that waits in its send on compactChan can
\* still get the signal in and return: the engine is up and the channel has
\* room or the Background goroutine is there to receive from it.
C13_CallsReturn ==
    \A k \in DOMAIN blocked :
      /\ proc = "up"
      /\ compactChan = 0 \/ bg # "exit"

\* C14: the Background goroutine exits only on the stop signal of a Close
\* that has set closing; Close closes the tables and lsm.log only after the
\* goroutine has exited; and from its exit on no step flushes or merges:
\* the table set, the table files and time stay as they are until the
\* engine is closed, and the closed store's files until it is opened again.
C14_CloseOrder ==
    [][/\ (bg' = "exit" /\ bg # "exit") => (closing /\ closer = "closing")
       /\ (proc = "up" /\ proc' = "closed") =>
            (closing /\ closer = "stopped" /\ bg = "exit")
       /\ (bg = "exit" /\ proc' = "up") =>
            (bg' = "exit" /\ UNCHANGED <<ssTableMap, files, time, mrg>>
                          /\ (wal' = wal \/ Len(wal') > Len(wal)))
       /\ (proc = "closed" /\ proc' = "closed") => UNCHANGED <<wal, walSynced, files>>
      ]_vars

\* Close has returned on a store that holds a table with records and a
\* record in lsm.log written after the flush.
C14_Witness ==
    /\ ret.op = "Close"
    /\ proc = "closed"
    /\ \E id \in DOMAIN files : Len(files[id]) > 0
    /\ Len(wal) > 0

\* C15: OpenLsm over the directory of a closed or terminated store, when
\* the process is not terminated in it, brings the engine up with a handle
\* for every lsm_<n>.sstable of the directory, whatever seqs are left, and
\* one more table with seq = largest seq + 1 = time that takes the records
\* replayed from lsm.log; the memtable is empty and lsm.log truncated.
C15_Open ==
    [][(Idle /\ proc \in {"closed", "down"} /\ fault' # "killed") =>
         /\ proc' = "up"
         /\ time' = MaxSeq(DOMAIN files) + 1
         /\ DOMAIN ssTableMap' = DOMAIN files \cup {time'}
         /\ DOMAIN files' = DOMAIN files \cup {time'}
         /\ \A id \in DOMAIN files : files'[id] = files[id]
         /\ \A id \in DOMAIN ssTableMap' : ssTableMap'[id].filePath = id
         /\ \A k \in KeyStrs :
              (StoredIn(files'[time'], 0, k) = NotFound) <=> (StoredIn(wal, 0, k) = NotFound)
         /\ nodeMap' = EmptyMap
         /\ wal' = <<>>
      ]_vars

\* C16: a node read back from the file has the key, the value and the
\* deleted flag of the node written at its place, and the read returns nil.
C16_RoundTrip ==
    \A i \in DOMAIN test.rn :
      /\ test.rn[i].err = "nil"
      /\ test.rn[i].node = test.n[i]

\* Two nodes were read back: a tombstone that carries a value, then a live
\* node with an empty value.
C16_Witness ==
    /\ Len(test.rn) = 2
    /\ test.n[1].deleted /\ test.n[1].value # EmptyStr
    /\ ~test.n[2].deleted /\ test.n[2].value = EmptyStr

\* C17: a request a handler has completed gets 200 on success, 400 for a
\* body that is not JSON, an empty key or (on set) an empty value, 404 for
\* the engine's ErrNotFound, and 500 for the errors of the log.
C17_StatusMapping ==
    ret.op \in {"setKey", "getKey", "deleteKey"} =>
      /\ ret.err = "nil" => errorToHttpStatus(ret.err) = 200
      /\ (\/ ret.err = "SyntaxError"
          \/ ret.key = EmptyStr
          \/ ret.op = "setKey" /\ ret.value = EmptyStr) => errorToHttpStatus(ret.err) = 400
      /\ ret.err = "ErrNotFound" => errorToHttpStatus(ret.err) = 404
      /\ ret.err \in {"writeErr", "syncErr"} => errorToHttpStatus(ret.err) = 500

\* The records of the nodes of map with the keys of the sequence keys, one
\* after the other.
RECURSIVE RecordsOf(_, _)
RecordsOf(keys, map) ==
    IF Len(keys) = 0 THEN <<>>
    ELSE WriteTo(map[Head(keys)]) \o RecordsOf(Tail(keys), map)

\* C18: the flush the Background goroutine makes under the write lock, the
\* process not being terminated in it, leaves the engine up with a new
\* table file that holds one record for every key of the memtable,
\* tombstones included, in ascending key order.
C18_FlushKeepsTombstones ==
    [][(/\ Idle
        /\ proc = "up"
        /\ bg = "compactLock"
        /\ shouldCompact(FALSE, closing, nodeMap)
        /\ bg' # bg
        /\ fault' # "killed") =>
         /\ proc' = "up"
         /\ time' \in DOMAIN files'
         /\ files'[time'] = RecordsOf(SortStrings(RangeKeys(DOMAIN nodeMap)), nodeMap)
      ]_vars

\* What a memtable shows of key k: nothing, a tombstone, or a live value.
Visible(map, k) ==
    IF k \notin DOMAIN map THEN <<"absent">>
    ELSE IF map[k].deleted THEN <<"tombstone">>
    ELSE <<"value", map[k].value>>

\* C19: while the engine is up and no append or fsync of lsm.log has
\* failed, replaying lsm.log from offset zero into an empty memtable, as
\* restoreFromLog does, gives for every key what the live memtable shows.
C19_LogMirrorsMemtable ==
    (proc = "up" /\ nfaults = 0) =>
      /\ restoreLoop(wal, 0, EmptyMap).err = "nil"
      /\ \A k \in KeyStrs :
           Visible(restoreLoop(wal, 0, EmptyMap).map, k) = Visible(nodeMap, k)

\* C20 as stated: every flush that completes, by the Background goroutine or
\* forced by OpenLsm, leaves its table file written and lsm.log at length
\* zero in the same step.
C20_FlushTruncates ==
    [][(/\ DOMAIN files' # DOMAIN files
        /\ DOMAIN files \subseteq DOMAIN files'
        /\ bg # "mergeIO"
        /\ fault' # "nilderef") => wal' = <<>>
      ]_vars

\* C20, amended: a flush of the Background goroutine that registers a table
\* is one step under the write lock, in which no Set or Delete is accepted:
\* the table set becomes the one before plus the table of the incremented
\* seq, whose file holds the records of the memtable in key order; the
\* memtable is empty and lsm.log has length zero.  An OpenLsm that brings
\* the engine up has flushed the replayed memtable in the same way and left
\* lsm.log empty before any call is accepted.
C20_FlushAtomic ==
    [][/\ (/\ proc = "up" /\ proc' = "up"
           /\ bg = "compactLock"
           /\ ssTableMap' # ssTableMap) =>
            /\ time' = time + 1
            /\ time' \notin DOMAIN ssTableMap
            /\ DOMAIN ssTableMap' = DOMAIN ssTableMap \cup {time'}
            /\ \A id \in DOMAIN ssTableMap :
                 ssTableMap'[id] = ssTableMap[id] /\ files'[id] = files[id]
            /\ ssTableMap'[time'].filePath = time'
            /\ files'[time'] = RecordsOf(SortStrings(RangeKeys(DOMAIN nodeMap)), nodeMap)
            /\ nodeMap' = EmptyMap
            /\ wal' = <<>>
            /\ nops' = nops
       /\ (proc \in {"closed", "down"} /\ proc' = "up") =>
            /\ time' \notin DOMAIN files
            /\ DOMAIN ssTableMap' = DOMAIN files \cup {time'}
            /\ files'[time'] =
                 RecordsOf(SortStrings(RangeKeys(DOMAIN restoreLoop(wal, 0, EmptyMap).map)),
                           restoreLoop(wal, 0, EmptyMap).map)
            /\ nodeMap' = EmptyMap
            /\ wal' = <<>>
            /\ nops' = nops
      ]_vars

\* The Background goroutine, woken by its timer, has just flushed a memtable
\* of more than one node into a table next to an older one: the signal of
\* the write that filled the memtable is still in compactChan.
C20_Witness ==
    /\ proc = "up"
    /\ compactChan = 1
    /\ bg = "merge"
    /\ nodeMap = EmptyMap
    /\ wal = <<>>
    /\ Cardinality(DOMAIN ssTableMap) >= 2
    /\ time \in DOMAIN files
    /\ Len(files[time]) > Len(WriteTo(newLsmNode(<<1>>, <<2, 1>>)))

\* C21: a flush of the Background goroutine that registers no table, the
\* process not being terminated from outside, has returned the error of
\* newSsTable to Background and leaves the engine up with lsm.log, the
\* memtable, the table set and the table files as they were: no file of
\* the seq it took is left.
C21_FlushFails ==
    [][(/\ proc = "up"
        /\ bg = "compactLock"
        /\ shouldCompact(FALSE, closing, nodeMap)
        /\ bg' # bg
        /\ fault' # "killed"
        /\ DOMAIN ssTableMap' = DOMAIN ssTableMap) =>
         /\ proc' = "up"
         /\ bg' = "compactErr"
         /\ wal' = wal
         /\ walSynced' = walSynced
         /\ nodeMap' = nodeMap
         /\ ssTableMap' = ssTableMap
         /\ files' = files
      ]_vars

\* C22: a flush asked for while the memtable is empty takes no seq, creates
\* no table file and leaves the table set as it is: the Background goroutine
\* woken by a timer or a signal, and the OpenLsm that replayed an empty
\* lsm.log and brings the engine up with the tables of the directory only.
C22_EmptyFlush ==
    [][/\ (/\ proc = "up" /\ proc' = "up"
           /\ nodeMap = EmptyMap
           /\ bg \in {"select", "compactLock"}
           /\ bg' # bg) => UNCHANGED <<time, files, ssTableMap>>
       /\ (/\ proc \in {"closed", "down"} /\ proc' = "up"
           /\ restoreLoop(wal, 0, EmptyMap).err = "nil"
           /\ restoreLoop(wal, 0, EmptyMap).map = EmptyMap) =>
            /\ time' = MaxSeq(DOMAIN files)
            /\ files' = files
            /\ DOMAIN ssTableMap' = DOMAIN files
      ]_vars

\* The largest seq of the set ids, 0 when it is empty.
Largest(ids) == IF ids = {} THEN 0 ELSE CHOOSE x \in ids : \A y \in ids : y <= x

\* C23: a table is registered under a seq larger than the seq of every
\* registered table and of every other table file of the directory; the
\* registered tables have their files in the directory and seqs up to
\* time, and the largest seq of the directory never gets smaller, so that
\* the new seq is larger than every seq a table was ever registered under.
\* time does not decrease while the engine is up, and OpenLsm brings the
\* engine up with time = the largest seq of the directory plus one.
C23_SeqIncreases ==
    [][/\ (proc = "up" /\ proc' = "up") =>
            /\ time' >= time
            /\ \A id \in DOMAIN ssTableMap' \ DOMAIN ssTableMap :
                 /\ id > time \/ id = mrg.time
                 /\ \A j \in (DOMAIN ssTableMap \cup DOMAIN files) \ {id} : j < id
       /\ proc' = "up" =>
            /\ DOMAIN ssTableMap' \subseteq DOMAIN files'
            /\ \A id \in DOMAIN ssTableMap' : id <= time'
       /\ Largest(DOMAIN files') >= Largest(DOMAIN files)
       /\ (proc \in {"closed", "down"} /\ proc' = "up") =>
            /\ time' = Largest(DOMAIN files) + 1
            /\ DOMAIN ssTableMap' \ DOMAIN files \subseteq {time'}
      ]_vars

\* After a termination and an OpenLsm the Background goroutine has merged
\* the tables 1 and 2 into the table 3 and erased their files.
C23_Witness ==
    /\ proc = "up"
    /\ crashed
    /\ bg = "select"
    /\ DOMAIN ssTableMap = {3}
    /\ DOMAIN files = {3}
    /\ Len(files[3]) > 0

\* What the newer of two table files, then the older, say of key.
NewerFirst(newer, older, key) ==
    IF StoredIn(newer, 0, key) # NotFound THEN StoredIn(newer, 0, key)
    ELSE StoredIn(older, 0, key)

RECURSIVE NewestOf(_, _, _)
\* One round of NewestOf: r is what the file of seq id says of key.
NewestNext(ids, id, fs, key, r) ==
    IF r = NotFound THEN NewestOf(ids \ {id}, fs, key) ELSE r

\* What the newest of the table files of directory fs with a seq of ids
\* that stores key says of it, ErrNotFound when none stores it.
NewestOf(ids, fs, key) ==
    IF ids = {} THEN NotFound
    ELSE NewestNext(ids, Largest(ids), fs, key, StoredIn(fs[Largest(ids)], 0, key))

\* C24: the table a flush registers (of the Background goroutine, or of
\* OpenLsm with the replayed log) has the largest seq of the table set and
\* the memtable's records, the other tables staying as they are; the table
\* a merge registers has the largest seq, takes the place of its two
\* inputs, which were the two newest, and stores for every key the record
\* of the newer input when that stores the key, else that of the older: so
\* for every key the newest table that stores it says after the step what
\* it said before.
C24_NewerSeqWins ==
    [][/\ (/\ proc = "up" /\ proc' = "up"
           /\ bg = "compactLock"
           /\ ssTableMap' # ssTableMap) =>
            /\ time' = Largest(DOMAIN ssTableMap')
            /\ time' \notin DOMAIN ssTableMap
            /\ \A id \in DOMAIN ssTableMap :
                 ssTableMap'[id] = ssTableMap[id] /\ files'[id] = files[id]
            /\ \A k \in KeyStrs :
                 StoredIn(files'[time'], 0, k) =
                   IF k \in DOMAIN nodeMap THEN GetOk(nodeMap[k].value) ELSE NotFound
       /\ (bg = "mergeSwap" /\ bg' = "erasePrev") =>
            /\ mrg.time = Largest(DOMAIN ssTableMap')
            /\ mrg.time > mrg.currStId /\ mrg.currStId > mrg.prevStId
            /\ DOMAIN ssTableMap' =
                 (DOMAIN ssTableMap \ {mrg.prevStId, mrg.currStId}) \cup {mrg.time}
            /\ \A id \in DOMAIN ssTableMap \ {mrg.prevStId, mrg.currStId} :
                 id < mrg.prevStId /\ ssTableMap'[id] = ssTableMap[id]
            /\ files' = files
            /\ \A k \in KeyStrs :
                 /\ StoredIn(files[mrg.time], 0, k) =
                      NewerFirst(files[mrg.currStId], files[mrg.prevStId], k)
                 /\ NewestOf(DOMAIN ssTableMap', files', k) =
                      NewestOf(DOMAIN ssTableMap, files, k)
       /\ (proc \in {"closed", "down"} /\ proc' = "up") =>
            /\ time' = Largest(DOMAIN ssTableMap')
            /\ time' \notin DOMAIN files
            /\ \A id \in DOMAIN files : files'[id] = files[id]
            /\ \A k \in KeyStrs :
                 StoredIn(files'[time'], 0, k) =
                   IF k \in DOMAIN restoreLoop(wal, 0, EmptyMap).map
                   THEN GetOk(restoreLoop(wal, 0, EmptyMap).map[k].value)
                   ELSE NotFound
      ]_vars

\* A merge has just registered its output: both inputs store a key they
\* give different values, and the older input stores a key the newer does
\* not.
C24_Witness ==
    /\ proc = "up"
    /\ bg = "erasePrev"
    /\ mrg.time \in DOMAIN ssTableMap
    /\ \E k \in KeyStrs :
         /\ StoredIn(files[mrg.prevStId], 0, k).err = "nil"
         /\ StoredIn(files[mrg.currStId], 0, k).err = "nil"
         /\ StoredIn(files[mrg.prevStId], 0, k) # StoredIn(files[mrg.currStId], 0, k)
    /\ \E k \in KeyStrs :
         /\ StoredIn(files[mrg.prevStId], 0, k).err = "nil"
         /\ StoredIn(files[mrg.currStId], 0, k) = NotFound

\* C25: a table enters the table set only in a step in which newSsTable or
\* mergeSsTable has returned nil, that is after its writes, its Sync and its
\* index: its file is in the directory with the records the handle indexes
\* (for a merge, written by an earlier step and not touched since), and a
\* flush or merge whose I/O failed registers nothing.  A table leaves the
\* table set of a running engine only as an input of a merge, in the step
\* that registers the output, with its file still there; a table file is
\* erased only when it is an input that has left the table set and the
\* output is registered.
C25_WrittenThenRegistered ==
    [][/\ proc' = "up" =>
            \A id \in DOMAIN ssTableMap' \ DOMAIN ssTableMap :
              /\ bg' \notin {"compactErr", "mergeErr"}
              /\ id \in DOMAIN files'
              /\ index(files'[id]).err = "nil"
              /\ ssTableMap'[id] = SsTableOf(id, index(files'[id]))
              /\ bg = "mergeSwap" => (id \in DOMAIN files /\ files' = files)
       /\ bg' \in {"compactErr", "mergeErr"} => ssTableMap' = ssTableMap
       /\ (proc = "up" /\ proc' = "up") =>
            /\ \A id \in DOMAIN ssTableMap \ DOMAIN ssTableMap' :
                 /\ bg = "mergeSwap"
                 /\ id \in {mrg.prevStId, mrg.currStId}
                 /\ mrg.time \in DOMAIN ssTableMap'
                 /\ id \in DOMAIN files'
            /\ \A id \in DOMAIN files \ DOMAIN files' :
                 /\ id \in {mrg.prevStId, mrg.currStId}
                 /\ id \notin DOMAIN ssTableMap
                 /\ mrg.time \in DOMAIN ssTableMap
                 /\ mrg.time \in DOMAIN files'
      ]_vars

\* A merge has registered its output, which holds records; both inputs have
\* left the table set and their files are still in the directory.
C25_Witness ==
    /\ proc = "up"
    /\ bg = "erasePrev"
    /\ mrg.time \in DOMAIN ssTableMap
    /\ Len(files[mrg.time]) > 0
    /\ {mrg.prevStId, mrg.currStId} \cap DOMAIN ssTableMap = {}
    /\ {mrg.prevStId, mrg.currStId} \subseteq DOMAIN files
    /\ Len(files[mrg.prevStId]) > 0

\* The keys a table file stores.
KeysIn(f) == {k \in KeyStrs : StoredIn(f, 0, k) # NotFound}

\* How many records the words f hold, read from word offset pos.
RECURSIVE CountRecords(_, _)
CountRecords(f, pos) ==
    IF ReadFrom(f, pos).err # "nil" THEN 0
    ELSE 1 + CountRecords(f, ReadFrom(f, pos).pos)

TombstoneWins(k) == NewerFirst(mtest.curr, mtest.prev, k) = GetErr("ErrDeleted")

C28_MergeFails ==
    [][/\ (bg = "merge" /\ bg' = "mergeIO") => UNCHANGED <<nodeMap, ssTableMap, files>>
       /\ (/\ bg = "mergeIO"
           /\ bg' \notin {"mergeIO", "mergeSwap"}
           /\ fault' # "killed") =>
            /\ proc' = "up"
            /\ bg' = "mergeErr"
            /\ mrg.time \notin DOMAIN files'
            /\ ssTableMap' = ssTableMap
            /\ {mrg.prevStId, mrg.currStId} \subseteq DOMAIN ssTableMap'
            /\ files' = files
            /\ \A k \in KeyStrs :
                 LsmGet(nodeMap', ssTableMap', files', k) =
                   LsmGet(nodeMap, ssTableMap, files, k)
      ]_vars

\* A merge of two tables has failed: the seq it took has no file, both
\* tables are registered, and a Get finds a value in them.
C28_Witness ==
    /\ proc = "up"
    /\ bg = "mergeErr"
    /\ Cardinality(DOMAIN ssTableMap) >= 2
    /\ time \notin DOMAIN files
    /\ DOMAIN ssTableMap \subseteq DOMAIN files
    /\ \E k \in KeyStrs : k \notin DOMAIN nodeMap /\ GetResult(k).err = "nil"

\* Every Get returns after the step what it returned before.
SameGets ==
    \A k \in KeyStrs :
      LsmGet(nodeMap', ssTableMap', files', k) = LsmGet(nodeMap, ssTableMap, files, k)

\* C29: with fewer than two tables mergeSsTables changes nothing.  With two
\* or more it takes time + 1 as the output's seq and the two tables with
\* the largest seqs as inputs; its swap puts the output into the table set
\* and takes both inputs out, one table less than before; then the inputs'
\* files are erased; and every Get returns after each of these steps what
\* it returned before it.
C29_MergeStep ==
    [][/\ (/\ proc = "up" /\ proc' = "up"
           /\ bg = "merge" /\ bg' # bg
           /\ Cardinality(DOMAIN ssTableMap) < 2) =>
            /\ bg' = "select"
            /\ UNCHANGED <<time, mrg, nodeMap, ssTableMap, files, wal>>
       /\ (/\ proc = "up" /\ proc' = "up"
           /\ bg = "merge" /\ bg' # bg
           /\ Cardinality(DOMAIN ssTableMap) >= 2) =>
            /\ bg' = "mergeIO"
            /\ time' = time + 1
            /\ mrg'.time = time' /\ mrg'.time \notin DOMAIN ssTableMap \cup DOMAIN files
            /\ mrg'.currStId = Largest(DOMAIN ssTableMap)
            /\ mrg'.prevStId = Largest(DOMAIN ssTableMap \ {mrg'.currStId})
            /\ UNCHANGED <<nodeMap, ssTableMap, files>>
       /\ (bg = "mergeSwap" /\ bg' = "erasePrev") =>
            /\ DOMAIN ssTableMap' =
                 (DOMAIN ssTableMap \ {mrg.prevStId, mrg.currStId}) \cup {mrg.time}
            /\ Cardinality(DOMAIN ssTableMap') = Cardinality(DOMAIN ssTableMap) - 1
            /\ SameGets
       /\ (bg = "erasePrev" /\ bg' = "eraseCurr") =>
            /\ DOMAIN files' = DOMAIN files \ {mrg.prevStId}
            /\ ssTableMap' = ssTableMap
            /\ SameGets
       /\ (bg = "eraseCurr" /\ bg' = "select") =>
            /\ DOMAIN files' = DOMAIN files \ {mrg.currStId}
            /\ mrg.prevStId \notin DOMAIN files'
            /\ ssTableMap' = ssTableMap
            /\ SameGets
      ]_vars

\* The positions of the Background goroutine inside mergeSsTables, its two
\* inputs chosen, and inside compact.
InMerge == {"mergeIO", "mergeSwap", "erasePrev", "eraseCurr"}

\* C30: while the engine is up, time, the table set and the table files
\* change only in steps of the one Background goroutine, which is then
\* inside compact or inside mergeSsTables and moves on; a merge is under way
\* exactly while the goroutine is inside mergeSsTables past its choice of
\* inputs, so a flush never runs during a merge nor a merge during another;
\* and OpenLsm starts the goroutine at its select with no merge under way,
\* its own flush done.
C30_OneWorker ==
    [][/\ (/\ proc = "up" /\ proc' = "up"
           /\ <<time, ssTableMap, files>>' # <<time, ssTableMap, files>>) =>
            /\ bg \in {"compactLock", "merge"} \cup InMerge
            /\ bg' # bg
            /\ nops' = nops
       /\ (proc = "up" /\ proc' = "up" /\ bg = "compactLock") => mrg = NoMerge
       /\ proc' = "up" => (mrg' # NoMerge <=> bg' \in InMerge)
       /\ (proc = "up" /\ proc' = "up" /\ mrg # NoMerge /\ mrg' # NoMerge) =>
            /\ mrg'.time = mrg.time
            /\ mrg'.prevStId = mrg.prevStId
            /\ mrg'.currStId = mrg.currStId
       /\ (proc \in {"closed", "down"} /\ proc' = "up") =>
            (bg' = "select" /\ mrg' = NoMerge)
      ]_vars

\* The Background goroutine is in the mergeSsTable of two tables while the
\* memtable is over the threshold and the signal for its flush waits in
\* compactChan.
C30_Witness ==
    /\ proc = "up"
    /\ bg = "mergeIO"
    /\ mrg # NoMerge
    /\ compactChan = 1
    /\ shouldCompact(FALSE, closing, nodeMap)

(***************************************************************************)
(* C31: no call of Get ever calls SsTable.Get on a handle that has been    *)
(* closed or erased.  While a call is inside lookupSsTables the engine is  *)
(* not closed and every id the call has still to visit is registered in    *)
(* the table set with an open handle and its file on disk; and the handles *)
(* mergeSsTables is about to erase have left the table set.                *)
(***************************************************************************)
C31_ReadsOpenTables ==
    /\ (rd.pos = "tables" /\ proc # "down") =>
         /\ proc = "up"
         /\ \A id \in rd.ids :
              /\ id \in DOMAIN ssTableMap
              /\ ssTableMap[id].filePath = id
              /\ id \in DOMAIN files
    /\ (proc = "up" /\ bg \in {"erasePrev", "eraseCurr"}) =>
         /\ mrg.prevStId \notin DOMAIN ssTableMap
         /\ mrg.currStId \notin DOMAIN ssTableMap

\* What the call of Get r, which has missed in the memtable, returns when it
\* runs on to its end over the table set tables in directory fs.
ReadOutcome(r, tables, fs) ==
    IF r.pos = "lookup" THEN lookupSsTables(tables, fs, r.key)
    ELSE lookupIds(r.ids, tables, fs, r.key)

(***************************************************************************)
(* C32: a Get(k) that runs while a flush or a merge takes a step returns   *)
(* what it would have returned before the step or after it, and the two    *)
(* are equal.  In every step of the engine that changes the table set or   *)
(* the table files while a call of Get is on its way to or through the     *)
(* tables, Get of the call's key gives the same before and after the step, *)
(* and the call is left with that same result to return.                   *)
(***************************************************************************)
C32_ConcurrentGet ==
    [][(/\ proc = "up" /\ proc' = "up"
        /\ rd # NoRead
        /\ (ssTableMap' # ssTableMap \/ files' # files)) =>
         /\ rd' = rd
         /\ LsmGet(nodeMap', ssTableMap', files', rd.key)
              = LsmGet(nodeMap, ssTableMap, files, rd.key)
         /\ ReadOutcome(rd, ssTableMap', files')
              = LsmGet(nodeMap, ssTableMap, files, rd.key)]_vars

(***************************************************************************)
(* C33: on every path of compact the memtable lock is released once and in *)
(* the mode in which it is held, also when the check passes under the read *)
(* lock and fails under the write lock.  compact never leaves the process  *)
(* stopped by the runtime on an RUnlock of a lock not held for reading     *)
(* (fault "runlock"), nor the lock with its counters wrong (fault          *)
(* "lockcorrupt").                                                         *)
(***************************************************************************)
C33_UnlocksWhatItHolds == fault \notin {"runlock", "lockcorrupt"}

\* The memtable is over the flush threshold in an engine that is up and on
\* which Close has not been called.
FlushDue == proc = "up" /\ shouldCompact(FALSE, closing, nodeMap)

(***************************************************************************)
(* C34: whenever the memtable holds more than maxMemoryNodeCount records   *)
(* and Close has not been called, a flush takes place once the Background  *)
(* goroutine is scheduled.  The signal of Set / Delete is not lost: while  *)
(* a flush is due the signal waits in compactChan or the goroutine is in   *)
(* compact past its first check; and the step the goroutine then takes     *)
(* under the write lock, unless the process is terminated from outside, is *)
(* the flush: the memtable's records are in a newly registered table and   *)
(* the memtable is empty.                                                  *)
(***************************************************************************)
C34_FlushTakesPlace ==
    [][/\ FlushDue => (compactChan > 0 \/ bg = "compactLock")
       /\ (FlushDue /\ bg = "compactLock" /\ bg' # bg /\ fault' # "killed") =>
            /\ proc' = "up"
            /\ nodeMap' = EmptyMap
            /\ time' \in DOMAIN ssTableMap' \ DOMAIN ssTableMap
            /\ \A k \in DOMAIN nodeMap :
                 LsmGet(EmptyMap, ssTableMap', files', k)
                   = LsmGet(nodeMap, ssTableMap, files, k)]_vars

(***************************************************************************)
(* C35: in a store created empty in which no merge fails, the table set    *)
(* never holds more than 2 tables, whatever the calls of Set / Delete and  *)
(* the timer ticks.                                                        *)
(***************************************************************************)
C35_AtMostTwoTables == Cardinality(DOMAIN ssTableMap) <= 2

\* Two tables are registered and being merged while the memtable is over
\* the threshold again, its signal waiting in compactChan.
C35_Witness ==
    /\ Cardinality(DOMAIN ssTableMap) = 2
    /\ bg = "mergeIO"
    /\ FlushDue
    /\ compactChan > 0

\* What Get gives for what a table file stores of a key: the value, and
\* ErrNotFound for a tombstone as for no record.
GetOutcome(stored) == IF stored = GetErr("ErrDeleted") THEN NotFound ELSE stored

\* What the memtable map flushed into a table holds of key.
Flushed(map, key) == IF key \in DOMAIN map THEN GetOk(map[key].value) ELSE NotFound

\* What the table id built from the memtables prev and curr holds of key:
\* table 1 is the flush of prev, table 2 that of curr, table 3 their merge.
BuiltFrom(id, prev, curr, key) ==
    IF id = 1 THEN Flushed(prev, key)
    ELSE IF id = 2 THEN Flushed(curr, key)
    ELSE IF key \in DOMAIN curr THEN Flushed(curr, key)
    ELSE Flushed(prev, key)

(***************************************************************************)
(* C36: on every table built by a flush or a merge, SsTable.Get(k) returns *)
(* the stored value of every key the table stores, wherever k lies among   *)
(* the sampled keys, and ErrNotFound for every key it does not store; for  *)
(* k below minKey or above maxKey it returns ErrNotFound before it seeks   *)
(* to any record.                                                          *)
(***************************************************************************)
C36_GetReturnsStored ==
    stest.read # <<>> =>
      /\ stest.read[1].res
           = GetOutcome(StoredIn(stest.fs[stest.read[1].id], 0, stest.read[1].key))
      /\ stest.read[1].res
           = BuiltFrom(stest.read[1].id, stest.prev, stest.curr, stest.read[1].key)
      /\ ~InRange(stest.tables[stest.read[1].id], stest.read[1].key) =>
           /\ stest.read[1].res = NotFound
           /\ stest.read[1].offset = -1

\* The words f from offset pos on are whole records with keys in strictly
\* ascending order, each above the key of before (<<>> or <<key>>).
RECURSIVE Ascending(_, _, _)
Ascending(f, pos, before) ==
    IF ReadFrom(f, pos).err = "EOF" THEN TRUE
    ELSE IF ReadFrom(f, pos).err # "nil" THEN FALSE
    ELSE /\ Len(before) = 0 \/ StrLess(before[1], ReadFrom(f, pos).node.key)
         /\ Ascending(f, ReadFrom(f, pos).pos, <<ReadFrom(f, pos).node.key>>)

(***************************************************************************)
(* C37: every table file produced by a flush, or by a merge of two such    *)
(* tables, holds its records in strictly ascending key order, no key       *)
(* twice.                                                                  *)
(***************************************************************************)
C37_FilesAscending ==
    \A id \in DOMAIN stest.fs : Ascending(stest.fs[id], 0, <<>>)

\* Two tables that share a key and hold a key each that the other lacks have
\* been flushed and merged.
C37_Witness ==
    /\ 3 \in DOMAIN stest.tables
    /\ DOMAIN stest.prev \cap DOMAIN stest.curr # {}
    /\ DOMAIN stest.prev \ DOMAIN stest.curr # {}
    /\ DOMAIN stest.curr \ DOMAIN stest.prev # {}
    /\ CountRecords(stest.fs[3], 0) = MaxTableKeys


\* C38: SsTable.Get on a table whose file holds no record returns
\* ErrNotFound; its keyIndex stays inside st.keys, so no call ends in the
\* index-out-of-range panic.
C38_EmptyTableGet ==
    \A i \in 1..Len(stest.read) :
        CountRecords(stest.fs[stest.tables[stest.read[i].id].filePath], 0) = 0
            => /\ stest.read[i].keyIndex < Len(stest.tables[stest.read[i].id].keys)
               /\ stest.read[i].res = GetErr("ErrNotFound")


\* The samples of st that are below key, and those that are not above it.
SamplesBelow(st, key) == {j \in 1..Len(st.keys) : StrLess(st.keys[j], key)}

SamplesUpTo(st, key) ==
    {j \in 1..Len(st.keys) : st.keys[j] = key \/ StrLess(st.keys[j], key)}

\* The reads of SsTable.Get that passed both range checks on non-nil bounds.
ReadsInRange ==
    {i \in 1..Len(stest.read) :
        /\ Len(stest.tables[stest.read[i].id].minKey) > 0
        /\ Len(stest.tables[stest.read[i].id].maxKey) > 0
        /\ InRange(stest.tables[stest.read[i].id], stest.read[i].key)}

\* The scan of read rdg on table st starts on the record of the sample
\* st.keys[keyIndex].
StartsAtSample(st, rdg) ==
    /\ rdg.keyIndex \in 0..(Len(st.keys) - 1)
    /\ rdg.offset = st.keyToOffset[st.keys[rdg.keyIndex + 1]]
    /\ ReadFrom(stest.fs[st.filePath], rdg.offset).err = "nil"
    /\ ReadFrom(stest.fs[st.filePath], rdg.offset).node.key = st.keys[rdg.keyIndex + 1]

\* C39 as it is written: with minKey <= k <= maxKey the search selects the
\* largest sampled key that is less than or equal to k, and the scan starts
\* at that sample's offset.
C39_LargestSampleUpTo ==
    \A i \in ReadsInRange :
        /\ StartsAtSample(stest.tables[stest.read[i].id], stest.read[i])
        /\ stest.read[i].keyIndex + 1
             \in SamplesUpTo(stest.tables[stest.read[i].id], stest.read[i].key)
        /\ \A j \in SamplesUpTo(stest.tables[stest.read[i].id], stest.read[i].key) :
             j <= stest.read[i].keyIndex + 1

\* C39, amended: with minKey <= k <= maxKey the search selects the largest
\* sampled key that is strictly less than k, or index 0 when no sample is
\* below k, which is when k equals the first sample; the scan starts at the
\* selected sample's offset, and the selected sample is never above k.
C39_LargestSampleBelow ==
    \A i \in ReadsInRange :
        /\ StartsAtSample(stest.tables[stest.read[i].id], stest.read[i])
        /\ IF SamplesBelow(stest.tables[stest.read[i].id], stest.read[i].key) = {}
           THEN /\ stest.read[i].keyIndex = 0
                /\ stest.read[i].key = stest.tables[stest.read[i].id].keys[1]
           ELSE /\ stest.read[i].keyIndex + 1
                     \in SamplesBelow(stest.tables[stest.read[i].id], stest.read[i].key)
                /\ \A j \in SamplesBelow(stest.tables[stest.read[i].id], stest.read[i].key) :
                     j <= stest.read[i].keyIndex + 1

\* A read on the merged table with the key of its third sample: the scan
\* starts at the second sample and finds the key.
C39_Witness ==
    /\ Len(stest.read) = 1
    /\ stest.read[1].id = 3
    /\ 1 \in ReadsInRange
    /\ Len(stest.tables[3].keys) = 3
    /\ stest.read[1].key = stest.tables[3].keys[3]
    /\ stest.read[1].keyIndex = 1
    /\ stest.read[1].res.err = "nil"

====
